---- MODULE Spec2Model ----
(***************************************************************************)
(* Lilly: the Repository / DataSource layer.                               *)
(*                                                                         *)
(* The model follows lilly/repositories/base.py (the eight public          *)
(* operations: acquire a connection, call the store primitive, convert     *)
(* every record, release), lilly/repositories/sqlalchemy.py (the store     *)
(* primitives over one table) and lilly/datasources/sqlalchemy.py (the     *)
(* lazily initialised datasource and the session context manager).         *)
(*                                                                         *)
(* The table is the "names" table of the repository's model class: an      *)
(* integer primary key `id` and a non-null `title`.  A row is the record   *)
(* [id |-> i, title |-> t]; a DTO is a record over the fields its class    *)
(* declares ([title] for the creation DTO, [id, title] for the output      *)
(* DTO).  Rows are read in primary-key order, and a generated id is the    *)
(* largest id in the table plus one.                                       *)
(***************************************************************************)
EXTENDS Integers, Sequences, FiniteSets, TLC

VARIABLES
    tables,          \* the schema (the tables) exists in the store
    rows,            \* the committed rows of the table
    is_initialized,  \* SQLAlchemyDataSource._is_initialized
    pc,              \* per caller: where its public Repository call stands
    call,            \* per caller: the public operation and its arguments
    session,         \* per caller: the session of its context manager
    prim_args,       \* per caller: the arguments handed to the store primitive
    objs,            \* per caller: the ORM instances the primitive returned
    pending,         \* per caller: the uncommitted work of its session
    result,          \* per caller: the DTOs converted so far
    error,           \* per caller: the exception propagating out of the call
    pre,             \* per caller: the rows when the call was made
    log,             \* per caller: what the call has done, in order
    handle,          \* per caller: the Session object its context manager holds
    sessions,        \* the Session objects alive, and whether each is open
    router,          \* lilly.routing._router: the routes of the shared APIRouter
    settings,        \* the CRUDRouteSetSettings of the decorated route set
    members,         \* the functions that are attributes of _CRUDRouteSet
    stage,           \* how far @routeset has got with the route set
    request,         \* the HTTP request being served, and where it stands
    action,          \* the Action instance RouteSet._do constructed
    repository_calls, \* the calls the Action made on its repository
    response,        \* what the endpoint returned
    app,             \* the Lilly application instance
    another_is_initialized \* _is_initialized as a second datasource instance has it

\* the routing layer and the application
web == <<router, settings, members, stage, request, action, repository_calls,
         response, app>>

vars == <<tables, rows, is_initialized, pc, call, session, prim_args, objs,
          pending, result, error, pre, log, handle, sessions, web,
          another_is_initialized>>

-----------------------------------------------------------------------------
(* Bounds of the model                                                     *)

MaxId == 3
MaxSkip == 2
MaxLimit == 2
MaxBatch == 2

Callers == {"c1", "c2"}
Titles == {"Doe", "Roe"}

-----------------------------------------------------------------------------
(* Values                                                                  *)

\* Optional[int]: None is the empty sequence, n is <<n>>
None == <<>>
Some(n) == <<n>>

\* what Query.get() returns when no row has the id
NoneRecord == [none |-> TRUE]

\* **filters with no entry
NoFilters == <<>>

\* `missing`: the hooks the repository called upon leaves unimplemented;
\* `outage`: the store cannot be reached while the call runs
NoCall ==
    [op |-> "none", record_id |-> 0, record |-> <<>>, records |-> <<>>,
     criteria |-> <<>>, skip |-> 0, limit |-> None, filters |-> NoFilters,
     missing |-> {}, outage |-> FALSE]

NoPending == [kind |-> "none", ids |-> {}, data |-> <<>>, inserts |-> <<>>]

\* NameTest.id < 10 : an SQL expression object
Expr(field, op, val) == [kind |-> "expr", field |-> field, op |-> op, val |-> val]
\* "id > 2" : a criterion given as a raw string
Str(field, op, val) == [kind |-> "str", field |-> field, op |-> op, val |-> val]
\* text("id > 2")
text(criterion) == [criterion EXCEPT !.kind = "text"]

-----------------------------------------------------------------------------
(* The store: one table, rows read in primary-key order                    *)

Ids(table) == {r.id : r \in table}

MaxOf(S) == CHOOSE m \in S : \A x \in S : x <= m
MinOf(S) == CHOOSE m \in S : \A x \in S : m <= x

\* (mutation) the generated id is the number of rows plus one
GeneratedIdByCount(table) == Cardinality(table) + 1

\* the id the store generates for the next inserted row
GeneratedId(table) == IF table = {} THEN 1 ELSE MaxOf(Ids(table)) + 1

RECURSIVE InIdOrder(_)
InIdOrder(table) ==
    IF table = {} THEN <<>>
    ELSE LET first == CHOOSE r \in table : \A o \in table : r.id <= o.id
         IN  <<first>> \o InIdOrder(table \ {first})

\* Query.get(record_id)
Get(table, record_id) ==
    IF record_id \in Ids(table)
    THEN CHOOSE r \in table : r.id = record_id
    ELSE NoneRecord

\* one criterion of the WHERE clause, on one row
Holds(criterion, row) ==
    CASE criterion.op = "<" -> row[criterion.field] < criterion.val
      [] criterion.op = ">" -> row[criterion.field] > criterion.val
      [] criterion.op = "=" -> row[criterion.field] = criterion.val

\* .filter(*criteria).filter_by(**filters): every criterion and every filter
Matches(row, criteria, filters) ==
    /\ \A i \in 1..Len(criteria) : Holds(criteria[i], row)
    /\ \A f \in DOMAIN filters : row[f] = filters[f]

\* a raw string handed to .filter() is rejected by the query layer
Rejected(criteria) == \E i \in 1..Len(criteria) : criteria[i].kind = "str"

Where(table, criteria, filters) == {r \in table : Matches(r, criteria, filters)}

\* (mutation) the offset is off by one
OffsetOneMore(seq, skip) == SubSeq(seq, skip + 2, Len(seq))

\* .offset(skip)
Offset(seq, skip) == SubSeq(seq, skip + 1, Len(seq))

\* .limit(limit)
Limit(seq, limit) ==
    IF limit = None THEN seq
    ELSE SubSeq(seq, 1, IF limit[1] < Len(seq) THEN limit[1] ELSE Len(seq))

\* (mutation) the fields of the new record are not written
SetAttrsDropped(row, data) == row

\* setattr(record, field, value) for every field of the data
SetAttrs(row, data) ==
    [f \in DOMAIN row |-> IF f \in DOMAIN data THEN data[f] ELSE row[f]]

\* (mutation) the criteria given as strings are left out of the predicate
coerce_string_criteria_dropping(criteria) ==
    SelectSeq(criteria, LAMBDA criterion : criterion.kind # "str")

\* SQLAlchemyRepository.__coerce_string_criteria
coerce_string_criteria(criteria) ==
    [i \in 1..Len(criteria) |->
        IF criteria[i].kind = "str" THEN text(criteria[i]) ELSE criteria[i]]

\* an ORM instance of the session, loaded from a row
Loaded(row) == [id |-> row.id, title |-> row.title, expired |-> FALSE]
LoadedAll(seq) == [i \in 1..Len(seq) |-> Loaded(seq[i])]

\* _update_orm_instance
update_orm_instance(orm_instance, new_data) == SetAttrs(orm_instance, new_data)

\* (mutation) .dict(exclude_unset=True): only the fields the caller set
dict_exclude_unset(record) ==
    IF "fields_set" \in DOMAIN record
    THEN [f \in record.fields_set |-> record[f]]
    ELSE record

\* BaseModel.dict(): every field the DTO's class declares, with the default
\* of the class for a field the caller did not set.  A DTO of a class that
\* has defaults carries, under `fields_set`, the names of the fields its
\* caller set (pydantic's __fields_set__); `fields_set` is not a field.
dict(record) == [f \in DOMAIN record \ {"fields_set"} |-> record[f]]

\* a column that is (part of) the primary key cannot be set to NULL
NullKey(data) == "id" \in DOMAIN data /\ data.id = None

\* dto_cls.from_orm(record): the output DTO (id, title) of a loaded instance
from_orm(record) == [id |-> record.id, title |-> record.title]

\* the Session objects that can be alive at once: one per running call
SessionIds == 1..Cardinality(Callers)
NoSession == 0

\* (mutation) the context managers hand out one shared Session object
SharedSession(alive) == 1

\* sessionmaker(bind=engine, ...)(): a Session object that did not exist before
NewSession(alive) == MinOf({s \in SessionIds : alive[s] = "none"})

-----------------------------------------------------------------------------
(* The routing layer before any route set is decorated, and the            *)
(* application before any call on it                                       *)

NoSettings == [actions |-> {}, string_searchable_fields |-> <<>>]
NoRequest ==
    [endpoint |-> "none", at |-> "none", record_id |-> 0, body |-> <<>>,
     q |-> None, skip |-> 0, limit |-> None]
NoAction ==
    [cls |-> "none", record_id |-> 0, record |-> <<>>, records |-> <<>>,
     criterion |-> <<>>, skip |-> 0, limit |-> None, filters |-> NoFilters,
     options |-> <<>>]
NoResponse == <<>>
NoApp == [mounted |-> {}, routes |-> {}, error |-> "none", called |-> "none"]

InitWeb ==
    /\ router = <<>>
    /\ settings = NoSettings
    /\ members = {}
    /\ stage = "undecorated"
    /\ request = NoRequest
    /\ action = NoAction
    /\ repository_calls = <<>>
    /\ response = NoResponse
    /\ app = NoApp

\* no public Repository call has been made yet
InitCallers ==
    /\ pc = [p \in Callers |-> "idle"]
    /\ call = [p \in Callers |-> NoCall]
    /\ session = [p \in Callers |-> "none"]
    /\ prim_args = [p \in Callers |-> NoCall]
    /\ objs = [p \in Callers |-> <<>>]
    /\ pending = [p \in Callers |-> NoPending]
    /\ result = [p \in Callers |-> <<>>]
    /\ error = [p \in Callers |-> "none"]
    /\ pre = [p \in Callers |-> {}]
    /\ log = [p \in Callers |-> <<>>]
    /\ handle = [p \in Callers |-> NoSession]
    /\ sessions = [s \in SessionIds |-> "none"]

-----------------------------------------------------------------------------
Init ==
    /\ tables = FALSE
    /\ rows = {}
    /\ is_initialized = FALSE
    /\ another_is_initialized = FALSE
    /\ InitCallers
    /\ InitWeb

-----------------------------------------------------------------------------
(* The inputs the callers draw from                                        *)

RecordIds == 1..(MaxId + 1)
CreationDTOs == {[title |-> t] : t \in Titles}
OutputDTOs == {[id |-> i, title |-> t] : i \in 1..MaxId, t \in Titles}
Batches == UNION {[1..n -> CreationDTOs] : n \in 0..MaxBatch}
CriteriaChoices ==
    {<<>>,
     <<Expr("id", "<", MaxId)>>,
     <<Str("id", ">", 1)>>,
     <<Expr("id", "<", MaxId), Str("id", ">", 1)>>}
FilterChoices == {NoFilters} \cup {[title |-> t] : t \in Titles}
Skips == 0..MaxSkip
Limits == {None} \cup {Some(n) : n \in 0..MaxLimit}

-----------------------------------------------------------------------------
(* A public Repository call, step by step                                  *)

Record(p, event) == log' = [log EXCEPT ![p] = Append(@, event)]

\* (mutation) an exception leaves the call without passing through __exit__
RaiseUnguarded(p, exception) ==
    /\ error' = [error EXCEPT ![p] = exception]
    /\ pc' = [pc EXCEPT ![p] = "done"]

\* an exception leaves the body of the `with` block: __exit__ runs next
Raise(p, exception) ==
    /\ error' = [error EXCEPT ![p] = exception]
    /\ pc' = [pc EXCEPT ![p] = "exit"]

\* an exception raised before the `with` block is entered: there is no
\* connection scope to leave
Fail(p, exception) ==
    /\ error' = [error EXCEPT ![p] = exception]
    /\ pc' = [pc EXCEPT ![p] = "done"]

\* the hooks a repository class must implement
Hooks == {"_datasource", "_model_cls", "_dto_cls", "_primitive"}

\* (mutation) the abstract hooks return instead of raising
UnimplementedIgnored(p) == FALSE

\* the store primitive is the base class's own, or it reads self._model_cls
\* of a class that does not define it: both raise NotImplementedError
Unimplemented(p) == call[p].missing \cap {"_model_cls", "_primitive"} # {}

\* a statement sent to the store fails: the tables are not there, or the
\* store cannot be reached
Unavailable(p) == ~tables \/ call[p].outage

\* the test runner makes one call at a time
Begin(p, c) ==
    /\ \A q \in Callers : pc[q] = "idle"
    /\ call' = [call EXCEPT ![p] = c]
    /\ pc' = [pc EXCEPT ![p] = "connect"]
    /\ pre' = [pre EXCEPT ![p] = rows]
    /\ UNCHANGED <<tables, rows, is_initialized, session, prim_args, objs,
                   pending, result, error, log>>
    /\ UNCHANGED <<handle, sessions>>
    /\ UNCHANGED web
    /\ UNCHANGED another_is_initialized

get_one(p, record_id) ==
    /\ pc[p] = "idle"
    /\ Begin(p, [NoCall EXCEPT !.op = "get_one", !.record_id = record_id])

get_many(p, criterion, skip, limit, filters) ==
    /\ pc[p] = "idle"
    /\ Begin(p, [NoCall EXCEPT !.op = "get_many", !.criteria = criterion,
                            !.skip = skip, !.limit = limit, !.filters = filters])

create_one(p, record) ==
    /\ GeneratedId(rows) <= MaxId
    /\ Begin(p, [NoCall EXCEPT !.op = "create_one", !.record = record])

create_many(p, records) ==
    /\ GeneratedId(rows) + Len(records) - 1 <= MaxId
    /\ Begin(p, [NoCall EXCEPT !.op = "create_many", !.records = records])

update_one(p, record_id, new_record) ==
    /\ pc[p] = "idle"
    /\ Begin(p, [NoCall EXCEPT !.op = "update_one", !.record_id = record_id,
                            !.record = new_record])

update_many(p, new_record, criterion, filters) ==
    /\ pc[p] = "idle"
    /\ Begin(p, [NoCall EXCEPT !.op = "update_many", !.record = new_record,
                            !.criteria = criterion, !.filters = filters])

remove_one(p, record_id) ==
    /\ pc[p] = "idle"
    /\ Begin(p, [NoCall EXCEPT !.op = "remove_one", !.record_id = record_id])

remove_many(p, criterion, filters) ==
    /\ pc[p] = "idle"
    /\ Begin(p, [NoCall EXCEPT !.op = "remove_many", !.criteria = criterion,
                            !.filters = filters])

\* SQLAlchemyDataSource.connect, reached through Repository._get_connection:
\* the flag is read, and the schema is initialised first when it is unset
connect(p) ==
    /\ pc[p] = "connect"
    /\ IF "_datasource" \in call[p].missing
       THEN Fail(p, "NotImplementedError") /\ UNCHANGED log
       ELSE /\ pc' = [pc EXCEPT ![p] =
                    IF is_initialized THEN "enter" ELSE "initialize"]
            /\ Record(p, "connect")
            /\ UNCHANGED error
    /\ UNCHANGED <<tables, rows, is_initialized, call, session, prim_args,
                   objs, pending, result, pre>>
    /\ UNCHANGED <<handle, sessions>>
    /\ UNCHANGED web
    /\ UNCHANGED another_is_initialized

\* SQLAlchemyDataSource.initialize_db as called by connect
connect_initialize_db(p) ==
    /\ pc[p] = "initialize"
    /\ IF call[p].outage
       THEN \* create_all cannot reach the store: connect() raises
            /\ Fail(p, "OperationalError")
            /\ UNCHANGED <<tables, is_initialized>>
       ELSE /\ tables' = TRUE
            /\ is_initialized' = TRUE
            /\ pc' = [pc EXCEPT ![p] = "enter"]
            /\ UNCHANGED error
    /\ UNCHANGED <<rows, call, session, prim_args, objs, pending, result,
                   pre, log>>
    /\ UNCHANGED <<handle, sessions>>
    /\ UNCHANGED web
    /\ UNCHANGED another_is_initialized

\* SQLAlchemySessionContextManager.__enter__ : a new session
__enter__(p) ==
    /\ pc[p] = "enter"
    /\ session' = [session EXCEPT ![p] = "open"]
    /\ handle' = [handle EXCEPT ![p] = NewSession(sessions)]
    /\ sessions' = [sessions EXCEPT ![NewSession(sessions)] = "open"]
    /\ pc' = [pc EXCEPT ![p] = "primitive"]
    /\ Record(p, "enter")
    /\ UNCHANGED <<tables, rows, is_initialized, call, prim_args, objs,
                   pending, result, error, pre>>
    /\ UNCHANGED web
    /\ UNCHANGED another_is_initialized

\* the primitive `name` is entered with the connection and the call's arguments
Enter(p, op, name) ==
    /\ pc[p] = "primitive"
    /\ call[p].op = op
    /\ prim_args' = [prim_args EXCEPT ![p] = call[p]]
    /\ Record(p, name)

\* (mutation) the records are handed back without being converted
ConvertingSkipped(records) == "exit"

\* where a call goes once its primitive has returned `records`
Converting(records) == IF Len(records) = 0 THEN "exit" ELSE "convert"

_get_one(p) ==
    /\ Enter(p, "get_one", "_get_one")
    /\ IF Unimplemented(p)
       THEN Raise(p, "NotImplementedError") /\ UNCHANGED objs
       ELSE IF Unavailable(p)
       THEN Raise(p, "OperationalError") /\ UNCHANGED objs
       ELSE LET record == Get(rows, call[p].record_id)
            IN  /\ objs' = [objs EXCEPT ![p] =
                        <<IF record = NoneRecord THEN NoneRecord ELSE Loaded(record)>>]
                /\ pc' = [pc EXCEPT ![p] = "convert"]
                /\ UNCHANGED error
    /\ UNCHANGED <<tables, rows, is_initialized, call, session, pending,
                   result, pre>>
    /\ UNCHANGED <<handle, sessions>>
    /\ UNCHANGED web
    /\ UNCHANGED another_is_initialized

_get_many(p) ==
    /\ Enter(p, "get_many", "_get_many")
    /\ LET coerced_criteria == coerce_string_criteria(call[p].criteria)
           data == Limit(Offset(InIdOrder(Where(rows, coerced_criteria, call[p].filters)),
                                call[p].skip),
                         call[p].limit)
       IN  IF Unimplemented(p)
           THEN Raise(p, "NotImplementedError") /\ UNCHANGED objs
           ELSE IF Rejected(coerced_criteria)
           THEN Raise(p, "ArgumentError") /\ UNCHANGED objs
           ELSE IF Unavailable(p)
           THEN Raise(p, "OperationalError") /\ UNCHANGED objs
           ELSE /\ objs' = [objs EXCEPT ![p] = LoadedAll(data)]
                /\ pc' = [pc EXCEPT ![p] = Converting(data)]
                /\ UNCHANGED error
    /\ UNCHANGED <<tables, rows, is_initialized, call, session, pending,
                   result, pre>>
    /\ UNCHANGED <<handle, sessions>>
    /\ UNCHANGED web
    /\ UNCHANGED another_is_initialized

\* INSERT of the given dicts, each with the id the store generates for it
RECURSIVE InsertAll(_, _)
InsertAll(table, dicts) ==
    IF Len(dicts) = 0 THEN table
    ELSE InsertAll(table \cup {[id |-> GeneratedId(table), title |-> Head(dicts).title]},
                   Tail(dicts))

\* (mutation) the UPDATE has lost its WHERE clause
UpdateEveryRow(table, ids, data) == {SetAttrs(r, data) : r \in table}

\* UPDATE ... SET data WHERE id IN ids
UpdateAll(table, ids, data) ==
    {IF r.id \in ids THEN SetAttrs(r, data) ELSE r : r \in table}

\* (mutation) the DELETE has lost its WHERE clause
DeleteEveryRow(table, ids) == {}

\* DELETE ... WHERE id IN ids
DeleteAll(table, ids) == {r \in table : r.id \notin ids}

\* the primary key stays unique: an UPDATE may not move a row onto another row's id
KeyConflict(table, ids, data) ==
    /\ "id" \in DOMAIN data
    /\ \E r \in table : r.id \in ids /\ data.id # r.id /\ data.id \in Ids(table)

_create_one(p) ==
    /\ Enter(p, "create_one", "_create_one")
    /\ IF Unimplemented(p)
       THEN Raise(p, "NotImplementedError") /\ UNCHANGED <<objs, pending>>
       ELSE /\ objs' = [objs EXCEPT ![p] =
                    <<[id |-> 0, title |-> call[p].record.title, expired |-> FALSE]>>]
            /\ pending' = [pending EXCEPT ![p] =
                    [NoPending EXCEPT !.kind = "add", !.inserts = <<call[p].record>>]]
            /\ pc' = [pc EXCEPT ![p] = "commit"]
            /\ UNCHANGED error
    /\ UNCHANGED <<tables, rows, is_initialized, call, session, result, pre>>
    /\ UNCHANGED <<handle, sessions>>
    /\ UNCHANGED web
    /\ UNCHANGED another_is_initialized

\* execute(stmt, [record.dict() ...]) and the commit that follows it; with
\* no parameter set the INSERT carries no value at all, and the title
\* column is NOT NULL without a default
_create_many(p) ==
    /\ Enter(p, "create_many", "_create_many")
    /\ IF Unimplemented(p)
       THEN Raise(p, "NotImplementedError") /\ UNCHANGED pending
       ELSE IF Unavailable(p)
       THEN Raise(p, "OperationalError") /\ UNCHANGED pending
       ELSE IF Len(call[p].records) = 0
       THEN Raise(p, "IntegrityError") /\ UNCHANGED pending
       ELSE /\ pending' = [pending EXCEPT ![p] =
                    [NoPending EXCEPT !.kind = "insert", !.inserts = call[p].records]]
            /\ pc' = [pc EXCEPT ![p] = "commit"]
            /\ UNCHANGED error
    /\ objs' = [objs EXCEPT ![p] = <<>>]
    /\ UNCHANGED <<tables, rows, is_initialized, call, session, result, pre>>
    /\ UNCHANGED <<handle, sessions>>
    /\ UNCHANGED web
    /\ UNCHANGED another_is_initialized

_update_one(p) ==
    /\ Enter(p, "update_one", "_update_one")
    /\ IF Unimplemented(p)
       THEN Raise(p, "NotImplementedError") /\ UNCHANGED <<objs, pending>>
       ELSE IF Unavailable(p)
       THEN Raise(p, "OperationalError") /\ UNCHANGED <<objs, pending>>
       ELSE LET record == Get(rows, call[p].record_id)
            IN  IF record = NoneRecord
                THEN Raise(p, "KeyError") /\ UNCHANGED <<objs, pending>>
                ELSE /\ objs' = [objs EXCEPT ![p] =
                            <<SetAttrs(Loaded(record), call[p].record)>>]
                     /\ pending' = [pending EXCEPT ![p] =
                            [NoPending EXCEPT !.kind = "update",
                                              !.ids = {call[p].record_id},
                                              !.data = call[p].record]]
                     /\ pc' = [pc EXCEPT ![p] = "commit"]
                     /\ UNCHANGED error
    /\ UNCHANGED <<tables, rows, is_initialized, call, session, result, pre>>
    /\ UNCHANGED <<handle, sessions>>
    /\ UNCHANGED web
    /\ UNCHANGED another_is_initialized

_remove_one(p) ==
    /\ Enter(p, "remove_one", "_remove_one")
    /\ IF Unimplemented(p)
       THEN Raise(p, "NotImplementedError") /\ UNCHANGED <<objs, pending>>
       ELSE IF Unavailable(p)
       THEN Raise(p, "OperationalError") /\ UNCHANGED <<objs, pending>>
       ELSE LET record == Get(rows, call[p].record_id)
            IN  IF record = NoneRecord
                THEN Raise(p, "KeyError") /\ UNCHANGED <<objs, pending>>
                ELSE /\ objs' = [objs EXCEPT ![p] = <<Loaded(record)>>]
                     /\ pending' = [pending EXCEPT ![p] =
                            [NoPending EXCEPT !.kind = "delete",
                                              !.ids = {call[p].record_id}]]
                     /\ pc' = [pc EXCEPT ![p] = "commit"]
                     /\ UNCHANGED error
    /\ UNCHANGED <<tables, rows, is_initialized, call, session, result, pre>>
    /\ UNCHANGED <<handle, sessions>>
    /\ UNCHANGED web
    /\ UNCHANGED another_is_initialized

\* (mutation) the affected records are selected once the bulk statement has
\* run: the rows the statement deleted, or rewrote, are no longer matched
get_affected_records_after_statement(table, criterion, new_data, filters) ==
    LET matched == Ids(Where(table, criterion, filters))
        after == IF new_data # None
                 THEN {IF r.id \in matched THEN SetAttrs(r, new_data[1]) ELSE r : r \in table}
                 ELSE {r \in table : r.id \notin matched}
    IN  LoadedAll(InIdOrder(Where(after, criterion, filters)))

\* (mutation) the select of the affected records leaves out filter_by(**filters)
get_affected_records_unfiltered(table, criterion, new_data, filters) ==
    LET affected_records == LoadedAll(InIdOrder(Where(table, criterion, NoFilters)))
    IN  IF new_data # None
        THEN [i \in 1..Len(affected_records) |->
                 update_orm_instance(affected_records[i], new_data[1])]
        ELSE affected_records

\* SQLAlchemyRepository._get_affected_records: the matching records, in
\* store order, with new_data written onto each instance when it is given
get_affected_records(table, criterion, new_data, filters) ==
    LET affected_records == LoadedAll(InIdOrder(Where(table, criterion, filters)))
    IN  IF new_data # None
        THEN [i \in 1..Len(affected_records) |->
                 update_orm_instance(affected_records[i], new_data[1])]
        ELSE affected_records

\* the statement is built and the affected records are read; the statement
\* itself is executed in the next step
_update_many(p) ==
    /\ Enter(p, "update_many", "_update_many")
    /\ LET coerced_criteria == coerce_string_criteria(call[p].criteria)
           new_data == dict(call[p].record)
       IN  IF Unimplemented(p)
           THEN Raise(p, "NotImplementedError") /\ UNCHANGED objs
           ELSE IF Rejected(coerced_criteria)
           THEN Raise(p, "ArgumentError") /\ UNCHANGED objs
           ELSE IF Unavailable(p)
           THEN Raise(p, "OperationalError") /\ UNCHANGED objs
           ELSE /\ objs' = [objs EXCEPT ![p] =
                       get_affected_records(rows, coerced_criteria, Some(new_data),
                                            call[p].filters)]
                /\ pc' = [pc EXCEPT ![p] = "execute"]
                /\ UNCHANGED error
    /\ UNCHANGED <<tables, rows, is_initialized, call, session, pending,
                   result, pre>>
    /\ UNCHANGED <<handle, sessions>>
    /\ UNCHANGED web
    /\ UNCHANGED another_is_initialized

_remove_many(p) ==
    /\ Enter(p, "remove_many", "_remove_many")
    /\ LET coerced_criteria == coerce_string_criteria(call[p].criteria)
       IN  IF Unimplemented(p)
           THEN Raise(p, "NotImplementedError") /\ UNCHANGED objs
           ELSE IF Rejected(coerced_criteria)
           THEN Raise(p, "ArgumentError") /\ UNCHANGED objs
           ELSE IF Unavailable(p)
           THEN Raise(p, "OperationalError") /\ UNCHANGED objs
           ELSE /\ objs' = [objs EXCEPT ![p] =
                       get_affected_records(rows, coerced_criteria, None,
                                            call[p].filters)]
                /\ pc' = [pc EXCEPT ![p] = "execute"]
                /\ UNCHANGED error
    /\ UNCHANGED <<tables, rows, is_initialized, call, session, pending,
                   result, pre>>
    /\ UNCHANGED <<handle, sessions>>
    /\ UNCHANGED web
    /\ UNCHANGED another_is_initialized

\* datasource_connection.execute(stmt) of _update_many and _remove_many: the
\* bulk statement selects its rows now; its writes are visible at commit
execute(p) ==
    /\ pc[p] = "execute"
    /\ Record(p, "execute")
    /\ IF Unavailable(p)
       THEN Raise(p, "OperationalError") /\ UNCHANGED pending
       ELSE LET coerced_criteria == coerce_string_criteria(call[p].criteria)
                matched == Ids(Where(rows, coerced_criteria, call[p].filters))
                new_data == dict(call[p].record)
            IN  IF call[p].op = "update_many" /\ NullKey(new_data) /\ matched # {}
                THEN Raise(p, "IntegrityError") /\ UNCHANGED pending
                ELSE /\ pending' = [pending EXCEPT ![p] =
                            IF call[p].op = "update_many"
                            THEN [NoPending EXCEPT !.kind = "bulk_update", !.ids = matched,
                                                   !.data = new_data]
                            ELSE [NoPending EXCEPT !.kind = "bulk_delete",
                                                   !.ids = matched]]
                     /\ pc' = [pc EXCEPT ![p] = "commit"]
                     /\ UNCHANGED error
    /\ UNCHANGED <<tables, rows, is_initialized, call, session, prim_args, objs,
                   result, pre>>
    /\ UNCHANGED <<handle, sessions>>
    /\ UNCHANGED web
    /\ UNCHANGED another_is_initialized

\* (mutation) of a batch of inserts only the first row is written
CommittedFirstInsertOnly(table, work, instances) ==
    CASE work.kind \in {"add", "insert"} -> InsertAll(table, <<Head(work.inserts)>>)
      [] work.kind = "update" -> UpdateAll(table, work.ids, work.data)
      [] work.kind \in {"delete", "bulk_delete"} -> DeleteAll(table, work.ids)
      [] work.kind = "bulk_update" ->
            UpdateAll(table,
                      work.ids \cup {instances[i].id : i \in 1..Len(instances)},
                      work.data)
      [] OTHER -> table

\* the rows after the session's pending work is flushed and committed
Committed(table, work, instances) ==
    CASE work.kind \in {"add", "insert"} -> InsertAll(table, work.inserts)
      [] work.kind = "update" -> UpdateAll(table, work.ids, work.data)
      [] work.kind = "delete" -> DeleteAll(table, work.ids)
      [] work.kind = "bulk_update" ->
            \* the statement's rows, and the instances written in memory that
            \* the statement did not reach, which the flush writes by key
            UpdateAll(table,
                      work.ids \cup {instances[i].id : i \in 1..Len(instances)},
                      work.data)
      [] work.kind = "bulk_delete" -> DeleteAll(table, work.ids)
      [] OTHER -> table

\* (mutation) the commit expires every instance, the deleted ones too
AfterCommitAllExpired(table, work, instances) ==
    [i \in 1..Len(instances) |->
        IF work.kind = "add"
        THEN [instances[i] EXCEPT !.id = GeneratedId(table), !.expired = TRUE]
        ELSE [instances[i] EXCEPT !.expired = TRUE]]

\* the session's instances after the commit: an added instance carries its
\* generated key; every instance still in the session is expired, and the
\* instances a delete took out of the session keep what they had loaded
AfterCommit(table, work, instances) ==
    [i \in 1..Len(instances) |->
        CASE work.kind = "add" ->
                [instances[i] EXCEPT !.id = GeneratedId(table), !.expired = TRUE]
          [] work.kind \in {"update", "bulk_update"} ->
                [instances[i] EXCEPT !.expired = TRUE]
          [] work.kind = "bulk_delete" ->
                [instances[i] EXCEPT !.expired = (instances[i].id \notin work.ids)]
          [] OTHER -> instances[i]]

\* datasource_connection.commit()
commit(p) ==
    /\ pc[p] = "commit"
    /\ Record(p, "commit")
    /\ IF Unavailable(p)
       THEN Raise(p, "OperationalError") /\ UNCHANGED <<rows, objs>>
       ELSE IF KeyConflict(rows, pending[p].ids, pending[p].data)
       THEN Raise(p, "IntegrityError") /\ UNCHANGED <<rows, objs>>
       ELSE IF \/ /\ pending[p].kind \in {"update", "delete"}
                  /\ ~(pending[p].ids \subseteq Ids(rows))
               \/ /\ pending[p].kind = "bulk_update"
                  /\ \E i \in 1..Len(objs[p]) : objs[p][i].id \notin Ids(rows)
       THEN Raise(p, "StaleDataError") /\ UNCHANGED <<rows, objs>>
       ELSE /\ rows' = Committed(rows, pending[p], objs[p])
            /\ objs' = [objs EXCEPT ![p] = AfterCommit(rows, pending[p], objs[p])]
            /\ pc' = [pc EXCEPT ![p] = Converting(objs[p])]
            /\ UNCHANGED error
    /\ pending' = [pending EXCEPT ![p] = NoPending]
    /\ UNCHANGED <<tables, is_initialized, call, session, prim_args, result, pre>>
    /\ UNCHANGED <<handle, sessions>>
    /\ UNCHANGED web
    /\ UNCHANGED another_is_initialized

\* (mutation) the records are converted once the `with` block has been
\* left: the session is closed before a record is converted
_to_output_dto_after_release(p) ==
    /\ pc[p] = "convert"
    /\ Record(p, "convert")
    /\ LET k == Len(result[p]) + 1
           record == objs[p][k]
       IN  IF "_dto_cls" \in call[p].missing
           THEN Raise(p, "NotImplementedError") /\ UNCHANGED result
           ELSE IF record = NoneRecord
           THEN Raise(p, "ValidationError") /\ UNCHANGED result
           ELSE IF record.expired /\ Unavailable(p)
           THEN Raise(p, "OperationalError") /\ UNCHANGED result
           ELSE IF record.expired /\ record.id \notin Ids(rows)
           THEN Raise(p, "ObjectDeletedError") /\ UNCHANGED result
           ELSE /\ result' = [result EXCEPT ![p] =
                       Append(@, from_orm(IF record.expired
                                          THEN Get(rows, record.id)
                                          ELSE record))]
                /\ pc' = [pc EXCEPT ![p] =
                       IF k = Len(objs[p]) THEN "exit" ELSE "convert"]
                /\ UNCHANGED error
    /\ session' = [session EXCEPT ![p] = "closed"]
    /\ sessions' = [sessions EXCEPT ![handle[p]] = "closed"]
    /\ UNCHANGED <<tables, rows, is_initialized, call, prim_args, objs,
                   pending, pre, handle>>
    /\ UNCHANGED web
    /\ UNCHANGED another_is_initialized

\* SQLAlchemyRepository._to_output_dto on the next record of the primitive's
\* result: from_orm reads the instance's attributes, and an expired instance
\* loads them from its row first
_to_output_dto(p) ==
    /\ pc[p] = "convert"
    /\ Record(p, "convert")
    /\ LET k == Len(result[p]) + 1
           record == objs[p][k]
       IN  IF "_dto_cls" \in call[p].missing
           THEN Raise(p, "NotImplementedError") /\ UNCHANGED result
           ELSE IF record = NoneRecord
           THEN Raise(p, "ValidationError") /\ UNCHANGED result
           ELSE IF record.expired /\ Unavailable(p)
           THEN Raise(p, "OperationalError") /\ UNCHANGED result
           ELSE IF record.expired /\ record.id \notin Ids(rows)
           THEN Raise(p, "ObjectDeletedError") /\ UNCHANGED result
           ELSE /\ result' = [result EXCEPT ![p] =
                       Append(@, from_orm(IF record.expired
                                          THEN Get(rows, record.id)
                                          ELSE record))]
                /\ pc' = [pc EXCEPT ![p] =
                       IF k = Len(objs[p]) THEN "exit" ELSE "convert"]
                /\ UNCHANGED error
    /\ UNCHANGED <<tables, rows, is_initialized, call, session, prim_args, objs,
                   pending, pre>>
    /\ UNCHANGED <<handle, sessions>>
    /\ UNCHANGED web
    /\ UNCHANGED another_is_initialized

\* (mutation) __exit__ returns a true value: the exception is suppressed
__exit__suppressing(p) ==
    /\ pc[p] = "exit"
    /\ session' = [session EXCEPT ![p] = "closed"]
    /\ sessions' = [sessions EXCEPT ![handle[p]] = "closed"]
    /\ pending' = [pending EXCEPT ![p] = NoPending]
    /\ error' = [error EXCEPT ![p] = "none"]
    /\ pc' = [pc EXCEPT ![p] = "done"]
    /\ Record(p, "exit")
    /\ UNCHANGED <<tables, rows, is_initialized, call, prim_args, objs, result,
                   pre, handle>>
    /\ UNCHANGED web
    /\ UNCHANGED another_is_initialized

\* SQLAlchemySessionContextManager.__exit__ : the session is closed, and the
\* exception, if any, goes on to the caller
__exit__(p) ==
    /\ pc[p] = "exit"
    /\ session' = [session EXCEPT ![p] = "closed"]
    /\ sessions' = [sessions EXCEPT ![handle[p]] = "closed"]
    /\ UNCHANGED handle
    /\ pending' = [pending EXCEPT ![p] = NoPending]
    /\ pc' = [pc EXCEPT ![p] = "done"]
    /\ Record(p, "exit")
    /\ UNCHANGED <<tables, rows, is_initialized, call, prim_args, objs, result,
                   error, pre>>
    /\ UNCHANGED web
    /\ UNCHANGED another_is_initialized

\* the caller has the value (or the exception) and goes on
return(p) ==
    /\ pc[p] = "done"
    /\ pc' = [pc EXCEPT ![p] = "idle"]
    /\ call' = [call EXCEPT ![p] = NoCall]
    /\ session' = [session EXCEPT ![p] = "none"]
    /\ handle' = [handle EXCEPT ![p] = NoSession]
    /\ sessions' = [s \in SessionIds |->
            IF s = handle[p] THEN "none" ELSE sessions[s]]
    /\ prim_args' = [prim_args EXCEPT ![p] = NoCall]
    /\ objs' = [objs EXCEPT ![p] = <<>>]
    /\ result' = [result EXCEPT ![p] = <<>>]
    /\ error' = [error EXCEPT ![p] = "none"]
    /\ pre' = [pre EXCEPT ![p] = {}]
    /\ log' = [log EXCEPT ![p] = <<>>]
    /\ UNCHANGED <<tables, rows, is_initialized, pending>>
    /\ UNCHANGED web
    /\ UNCHANGED another_is_initialized

-----------------------------------------------------------------------------
(* The datasource's own operations, as the test set-up calls them          *)

initialize_db ==
    /\ \A q \in Callers : pc[q] = "idle"
    /\ tables' = TRUE
    /\ is_initialized' = TRUE
    /\ UNCHANGED <<rows, pc, call, session, prim_args, objs, pending, result,
                   error, pre, log>>
    /\ UNCHANGED <<handle, sessions>>
    /\ UNCHANGED web
    /\ UNCHANGED another_is_initialized

\* (mutation) clear_db drops the tables and leaves the flag set
clear_db_keeping_flag ==
    /\ \A q \in Callers : pc[q] = "idle"
    /\ tables' = FALSE
    /\ rows' = {}
    /\ UNCHANGED <<is_initialized, pc, call, session, prim_args, objs, pending,
                   result, error, pre, log, handle, sessions>>
    /\ UNCHANGED web
    /\ UNCHANGED another_is_initialized

clear_db ==
    /\ \A q \in Callers : pc[q] = "idle"
    /\ tables' = FALSE
    /\ rows' = {}
    /\ is_initialized' = FALSE
    /\ UNCHANGED <<pc, call, session, prim_args, objs, pending, result, error,
                   pre, log>>
    /\ UNCHANGED <<handle, sessions>>
    /\ UNCHANGED web
    /\ UNCHANGED another_is_initialized

-----------------------------------------------------------------------------
Next ==
    \/ \E p \in Callers, record_id \in RecordIds : get_one(p, record_id)
    \/ \E p \in Callers, criterion \in CriteriaChoices, skip \in Skips,
          limit \in Limits, filters \in FilterChoices :
            get_many(p, criterion, skip, limit, filters)
    \/ \E p \in Callers, record \in CreationDTOs : create_one(p, record)
    \/ \E p \in Callers, records \in Batches : create_many(p, records)
    \/ \E p \in Callers, record_id \in RecordIds,
          new_record \in CreationDTOs \cup OutputDTOs :
            update_one(p, record_id, new_record)
    \/ \E p \in Callers, new_record \in CreationDTOs,
          criterion \in CriteriaChoices, filters \in FilterChoices :
            update_many(p, new_record, criterion, filters)
    \/ \E p \in Callers, record_id \in RecordIds : remove_one(p, record_id)
    \/ \E p \in Callers, criterion \in CriteriaChoices, filters \in FilterChoices :
            remove_many(p, criterion, filters)
    \/ \E p \in Callers : connect(p)
    \/ \E p \in Callers : connect_initialize_db(p)
    \/ \E p \in Callers : __enter__(p)
    \/ \E p \in Callers : _get_one(p)
    \/ \E p \in Callers : _get_many(p)
    \/ \E p \in Callers : _create_one(p)
    \/ \E p \in Callers : _create_many(p)
    \/ \E p \in Callers : _update_one(p)
    \/ \E p \in Callers : _update_many(p)
    \/ \E p \in Callers : _remove_one(p)
    \/ \E p \in Callers : _remove_many(p)
    \/ \E p \in Callers : execute(p)
    \/ \E p \in Callers : commit(p)
    \/ \E p \in Callers : _to_output_dto(p)
    \/ \E p \in Callers : __exit__(p)
    \/ \E p \in Callers : return(p)
    \/ initialize_db
    \/ clear_db

Spec == Init /\ [][Next]_vars

-----------------------------------------------------------------------------
(* The repository tests' fixture: the ten Doe/Roe records, and the calls   *)
(* the tests make on it                                                    *)

MOCK_NAME_RECORDS ==
    <<[title |-> "Doe"], [title |-> "Roe"], [title |-> "Doe"], [title |-> "Roe"],
      [title |-> "Doe"], [title |-> "Doe"], [title |-> "Roe"], [title |-> "Roe"],
      [title |-> "Doe"], [title |-> "Roe"]>>

\* NameTest.id < 10, "id > 2"
ScenarioCriteria ==
    {<<>>,
     <<Expr("id", "<", 10)>>,
     <<Str("id", ">", 2)>>,
     <<Expr("id", "<", 10), Str("id", ">", 2)>>}
ScenarioFilters == {NoFilters, [title |-> "Roe"], [title |-> "Doe"]}
ScenarioUpdates == {[title |-> "Rene"]}

\* setUp: clear_db() then initialize_db()
InitFixture ==
    /\ tables = TRUE
    /\ rows = {}
    /\ is_initialized = TRUE
    /\ another_is_initialized = FALSE
    /\ InitCallers
    /\ InitWeb

\* TestSQLAlchemyRepository._add_dummy_data
add_dummy_data ==
    /\ \A q \in Callers : pc[q] = "idle"
    /\ rows = {}
    /\ rows' = InsertAll(rows, MOCK_NAME_RECORDS)
    /\ UNCHANGED <<tables, is_initialized, pc, call, session, prim_args, objs,
                   pending, result, error, pre, log>>
    /\ UNCHANGED <<handle, sessions>>
    /\ UNCHANGED web
    /\ UNCHANGED another_is_initialized

NextFixture ==
    \/ add_dummy_data
    \/ \E p \in Callers, criterion \in ScenarioCriteria, skip \in Skips,
          limit \in Limits, filters \in ScenarioFilters :
            /\ rows # {}
            /\ get_many(p, criterion, skip, limit, filters)
    \/ \E p \in Callers, new_record \in ScenarioUpdates,
          criterion \in ScenarioCriteria, filters \in ScenarioFilters :
            /\ rows # {}
            /\ update_many(p, new_record, criterion, filters)
    \/ \E p \in Callers, criterion \in ScenarioCriteria, filters \in ScenarioFilters :
            /\ rows # {}
            /\ remove_many(p, criterion, filters)
    \/ \E p \in Callers : connect(p)
    \/ \E p \in Callers : __enter__(p)
    \/ \E p \in Callers : _get_many(p)
    \/ \E p \in Callers : _update_many(p)
    \/ \E p \in Callers : _remove_many(p)
    \/ \E p \in Callers : execute(p)
    \/ \E p \in Callers : commit(p)
    \/ \E p \in Callers : _to_output_dto(p)
    \/ \E p \in Callers : __exit__(p)
    \/ \E p \in Callers : return(p)

SpecFixture == InitFixture /\ [][NextFixture]_vars

-----------------------------------------------------------------------------
(* The routing layer: @routeset on a CRUD route set                        *)

\* text is a sequence of characters
Chars_title == <<"t", "i", "t", "l", "e">>
Chars_id == <<"i", "d">>
Chars_LIKE == <<" ", "L", "I", "K", "E", " ", "'", "%">>
Chars_OR == <<"%", "'", " ", "O", "R">>

\* str.rstrip(chars): the trailing characters that are in `chars` are dropped
RECURSIVE rstrip(_, _)
rstrip(str, chars) ==
    IF Len(str) > 0 /\ str[Len(str)] \in chars
    THEN rstrip(SubSeq(str, 1, Len(str) - 1), chars)
    ELSE str

\* the loop of _extract_sql_query_string: str_search += f"{field} LIKE '%{q}%' OR"
RECURSIVE str_search(_, _)
str_search(fields, q) ==
    IF Len(fields) = 0 THEN <<>>
    ELSE Head(fields) \o Chars_LIKE \o q \o Chars_OR \o str_search(Tail(fields), q)

\* _extract_sql_query_string(fields, q)
extract_sql_query_string(fields, q) == rstrip(str_search(fields, q), {" ", "O", "R"})

\* the settings' action attributes, each with the Action class the route
\* set's settings give it
ActionKeys ==
    {"create_one_action", "create_many_action", "read_one_action",
     "read_many_action", "update_one_action", "update_many_action",
     "delete_one_action", "delete_many_action"}

ActionCls(key) ==
    CASE key = "create_one_action" -> "CreateOneAction"
      [] key = "create_many_action" -> "CreateManyAction"
      [] key = "read_one_action" -> "ReadOneAction"
      [] key = "read_many_action" -> "ReadManyAction"
      [] key = "update_one_action" -> "UpdateOneAction"
      [] key = "update_many_action" -> "UpdateManyAction"
      [] key = "delete_one_action" -> "DeleteOneAction"
      [] key = "delete_many_action" -> "DeleteManyAction"

\* the endpoints the body of _CRUDRouteSet defines, in order: P is
\* base_path, M is base_path_for_multiple_items
Endpoints ==
    <<[method |-> "POST", path |-> "P/", endpoint |-> "create_one",
       action |-> "create_one_action"],
      [method |-> "POST", path |-> "M/", endpoint |-> "create_many",
       action |-> "create_many_action"],
      [method |-> "GET", path |-> "P/{record_id}", endpoint |-> "read_one",
       action |-> "read_one_action"],
      [method |-> "GET", path |-> "P/", endpoint |-> "read_many",
       action |-> "read_many_action"],
      [method |-> "PUT", path |-> "P/{record_id}", endpoint |-> "update_one",
       action |-> "update_one_action"],
      [method |-> "PATCH", path |-> "P/{record_id}", endpoint |-> "update_partial",
       action |-> "update_one_action"],
      [method |-> "PUT", path |-> "M/", endpoint |-> "update_many",
       action |-> "update_many_action"],
      [method |-> "DELETE", path |-> "P/{record_id}", endpoint |-> "delete_one",
       action |-> "delete_one_action"],
      [method |-> "DELETE", path |-> "M/", endpoint |-> "delete_many",
       action |-> "delete_many_action"]>>

\* a route of the router: `bound` once cbv has made `self` the injected
\* instance of the class instead of a parameter of the request
Route(e, bound) ==
    [method |-> e.method, path |-> e.path, endpoint |-> e.endpoint, bound |-> bound]

\* the class body: each @router.<verb>(path) adds its route to the router
\* as soon as the function is defined
DefineEndpoints(routes) ==
    routes \o [i \in 1..Len(Endpoints) |-> Route(Endpoints[i], FALSE)]

\* _remove_routes_for_undefined_actions: delattr(cls, name) for the endpoints
\* whose action is None
remove_routes_for_undefined_actions(functions, s) ==
    functions \ {Endpoints[i].endpoint : i \in
                    {j \in 1..Len(Endpoints) : Endpoints[j].action \notin s.actions}}

\* cbv(router)(cls): the routes whose endpoint is a function of the class
\* are taken out of the router, bound to the class and included again at
\* the end; every other route stays where it is, as it is
cbv(routes, functions) ==
    LET of_class(r) == r.endpoint \in functions
        bind(r) == [r EXCEPT !.bound = TRUE]
        cbv_routes == SelectSeq(routes, of_class)
    IN  SelectSeq(routes, LAMBDA r : ~of_class(r))
            \o [i \in 1..Len(cbv_routes) |-> bind(cbv_routes[i])]

\* the settings a route set may return from get_settings
SettingsChoices ==
    {[actions |-> a, string_searchable_fields |-> f] :
        a \in SUBSET ActionKeys, f \in {<<Chars_title>>, <<Chars_title, Chars_id>>}}

\* @routeset on a CRUDRouteSet whose get_settings returns s
routeset(s) ==
    /\ stage = "undecorated"
    /\ settings' = s
    /\ members' = remove_routes_for_undefined_actions(
                      {Endpoints[i].endpoint : i \in 1..Len(Endpoints)}, s)
    /\ router' = cbv(DefineEndpoints(router), members')
    /\ stage' = "registered"
    /\ UNCHANGED <<request, action, repository_calls, response, app>>
    /\ UNCHANGED <<tables, rows, is_initialized, pc, call, session, prim_args,
                   objs, pending, result, error, pre, log, handle, sessions,
                   another_is_initialized>>

\* what the requests carry
RequestIds == 1..2
RequestBodies == {[title |-> "Doe"]}
RequestUpdates == {[id |-> 1, title |-> "Roe"]}
RequestBatches == {<<>>, <<[title |-> "Doe"], [title |-> "Roe"]>>}
Queries == {<<"d", "o", "e">>, <<"R", " ", "O">>}
RequestSkips == {0, MaxSkip}
RequestLimits == {None, Some(MaxLimit)}
\* what the repository behind the Action answers
Answers == {<<>>, <<[id |-> 1, title |-> "Doe"]>>}

\* action_cls(*args, **kwargs): each Action's __init__ binds its arguments
Construct(cls, args, kwargs) ==
    CASE cls = "CreateOneAction" ->
            [NoAction EXCEPT !.cls = cls, !.record = args[1], !.options = kwargs]
      [] cls = "CreateManyAction" ->
            [NoAction EXCEPT !.cls = cls, !.records = args[1], !.options = kwargs]
      [] cls \in {"ReadOneAction", "DeleteOneAction"} ->
            [NoAction EXCEPT !.cls = cls, !.record_id = args[1], !.options = kwargs]
      [] cls = "ReadManyAction" ->
            [NoAction EXCEPT !.cls = cls, !.criterion = args, !.skip = kwargs.skip,
                             !.limit = kwargs.limit]
      [] cls = "UpdateOneAction" ->
            [NoAction EXCEPT !.cls = cls, !.record_id = args[1], !.record = args[2],
                             !.options = kwargs]
      [] cls = "UpdateManyAction" ->
            [NoAction EXCEPT !.cls = cls, !.record = args[1], !.criterion = Tail(args)]
      [] cls = "DeleteManyAction" ->
            [NoAction EXCEPT !.cls = cls, !.criterion = args]

\* (mutation) ReadManyAction.run leaves skip and limit at their defaults
RepositoryCallWithoutPaging(a) ==
    CASE a.cls = "CreateOneAction" ->
            [method |-> "create_one", args |-> <<a.record>>, kwargs |-> a.options]
      [] a.cls = "CreateManyAction" ->
            [method |-> "create_many", args |-> <<a.records>>, kwargs |-> a.options]
      [] a.cls = "ReadOneAction" ->
            [method |-> "get_one", args |-> <<a.record_id>>, kwargs |-> a.options]
      [] a.cls = "ReadManyAction" ->
            [method |-> "get_many", args |-> a.criterion,
             kwargs |-> [skip |-> 0, limit |-> None, filters |-> a.filters]]
      [] a.cls = "UpdateOneAction" ->
            [method |-> "update_one", args |-> <<a.record_id, a.record>>,
             kwargs |-> a.options]
      [] a.cls = "UpdateManyAction" ->
            [method |-> "update_many", args |-> <<a.record>> \o a.criterion,
             kwargs |-> a.filters]
      [] a.cls = "DeleteOneAction" ->
            [method |-> "remove_one", args |-> <<a.record_id>>, kwargs |-> a.options]
      [] a.cls = "DeleteManyAction" ->
            [method |-> "remove_many", args |-> a.criterion, kwargs |-> a.filters]

\* the repository call each Action's run() makes
RepositoryCall(a) ==
    CASE a.cls = "CreateOneAction" ->
            [method |-> "create_one", args |-> <<a.record>>, kwargs |-> a.options]
      [] a.cls = "CreateManyAction" ->
            [method |-> "create_many", args |-> <<a.records>>, kwargs |-> a.options]
      [] a.cls = "ReadOneAction" ->
            [method |-> "get_one", args |-> <<a.record_id>>, kwargs |-> a.options]
      [] a.cls = "ReadManyAction" ->
            [method |-> "get_many", args |-> a.criterion,
             kwargs |-> [skip |-> a.skip, limit |-> a.limit, filters |-> a.filters]]
      [] a.cls = "UpdateOneAction" ->
            [method |-> "update_one", args |-> <<a.record_id, a.record>>,
             kwargs |-> a.options]
      [] a.cls = "UpdateManyAction" ->
            [method |-> "update_many", args |-> <<a.record>> \o a.criterion,
             kwargs |-> a.filters]
      [] a.cls = "DeleteOneAction" ->
            [method |-> "remove_one", args |-> <<a.record_id>>, kwargs |-> a.options]
      [] a.cls = "DeleteManyAction" ->
            [method |-> "remove_many", args |-> a.criterion, kwargs |-> a.filters]

\* a request is routed to `endpoint`, a function of the route set that the
\* router holds bound to the class; the endpoint hands its action class and
\* arguments to RouteSet._do, which constructs the Action
Dispatch(endpoint, req, key, args, kwargs) ==
    /\ stage = "registered"
    /\ request = NoRequest
    /\ \E i \in 1..Len(router) : router[i].endpoint = endpoint /\ router[i].bound
    /\ request' = [req EXCEPT !.endpoint = endpoint, !.at = "run"]
    /\ action' = Construct(ActionCls(key), args, kwargs)
    /\ UNCHANGED <<router, settings, members, stage, repository_calls, response, app>>
    /\ UNCHANGED <<tables, rows, is_initialized, pc, call, session, prim_args,
                   objs, pending, result, error, pre, log, handle, sessions,
                   another_is_initialized>>

route_create_one(body) ==
    /\ "create_one" \in members
    /\ Dispatch("create_one", [NoRequest EXCEPT !.body = body],
                "create_one_action", <<body>>, <<>>)

route_create_many(body) ==
    /\ "create_many" \in members
    /\ Dispatch("create_many", [NoRequest EXCEPT !.body = body],
                "create_many_action", <<body>>, <<>>)

route_read_one(record_id) ==
    /\ "read_one" \in members
    /\ Dispatch("read_one", [NoRequest EXCEPT !.record_id = record_id],
                "read_one_action", <<record_id>>, <<>>)

\* (mutation) the query is compiled whether or not q was given
read_many_criteria_always(fields, q) ==
    <<extract_sql_query_string(fields, IF q = None THEN <<>> ELSE q[1])>>

\* read_many: criteria = [], and the compiled query is appended when q is given
read_many_criteria(fields, q) ==
    IF q # None THEN <<extract_sql_query_string(fields, q[1])>> ELSE <<>>

route_read_many(skip, limit, q) ==
    /\ "read_many" \in members
    /\ Dispatch("read_many", [NoRequest EXCEPT !.skip = skip, !.limit = limit, !.q = q],
                "read_many_action",
                read_many_criteria(settings.string_searchable_fields, q),
                [skip |-> skip, limit |-> limit])

route_update_one(record_id, body) ==
    /\ "update_one" \in members
    /\ Dispatch("update_one", [NoRequest EXCEPT !.record_id = record_id, !.body = body],
                "update_one_action", <<record_id, body>>, <<>>)

route_update_partial(record_id, body) ==
    /\ "update_partial" \in members
    /\ Dispatch("update_partial",
                [NoRequest EXCEPT !.record_id = record_id, !.body = body],
                "update_one_action", <<record_id, body>>, <<>>)

\* q: str = "" : a request without q has the empty text as its q
route_update_many(body, q) ==
    /\ "update_many" \in members
    /\ Dispatch("update_many", [NoRequest EXCEPT !.body = body, !.q = q],
                "update_many_action",
                <<body, extract_sql_query_string(settings.string_searchable_fields,
                                                 IF q = None THEN <<>> ELSE q[1])>>,
                <<>>)

route_delete_one(record_id) ==
    /\ "delete_one" \in members
    /\ Dispatch("delete_one", [NoRequest EXCEPT !.record_id = record_id],
                "delete_one_action", <<record_id>>, <<>>)

route_delete_many(q) ==
    /\ "delete_many" \in members
    /\ Dispatch("delete_many", [NoRequest EXCEPT !.q = q],
                "delete_many_action",
                <<extract_sql_query_string(settings.string_searchable_fields,
                                           IF q = None THEN <<>> ELSE q[1])>>,
                <<>>)

\* Action.run(), called by _do: the one repository call, whose answer is
\* what run(), _do and the endpoint return
run(answer) ==
    /\ request.at = "run"
    /\ repository_calls' = Append(repository_calls,
                                  [call |-> RepositoryCall(action), answer |-> answer])
    /\ response' = Some(answer)
    /\ request' = [request EXCEPT !.at = "done"]
    /\ UNCHANGED <<router, settings, members, stage, action, app>>
    /\ UNCHANGED <<tables, rows, is_initialized, pc, call, session, prim_args,
                   objs, pending, result, error, pre, log, handle, sessions,
                   another_is_initialized>>

\* the response has gone out
respond ==
    /\ request.at = "done"
    /\ request' = NoRequest
    /\ action' = NoAction
    /\ repository_calls' = <<>>
    /\ response' = NoResponse
    /\ UNCHANGED <<router, settings, members, stage, app>>
    /\ UNCHANGED <<tables, rows, is_initialized, pc, call, session, prim_args,
                   objs, pending, result, error, pre, log, handle, sessions,
                   another_is_initialized>>

-----------------------------------------------------------------------------
(* The Lilly application: mount and the route-defining methods             *)

\* the route-defining methods Lilly overrides
RouteMethods ==
    {"get", "post", "patch", "put", "delete", "options", "head", "websocket"}
MountPaths == {"/another"}

\* `raise NotImplemented()`: NotImplemented is the comparison constant, not
\* an exception class, and calling it is a TypeError, which is what the
\* statement raises
raise_NotImplemented == "TypeError"

\* Lilly.mount(path, app)
mount(path) ==
    /\ request = NoRequest
    /\ app.called = "none"
    /\ app' = [app EXCEPT !.called = "mount", !.error = raise_NotImplemented]
    /\ UNCHANGED <<router, settings, members, stage, request, action,
                   repository_calls, response>>
    /\ UNCHANGED <<tables, rows, is_initialized, pc, call, session, prim_args,
                   objs, pending, result, error, pre, log, handle, sessions,
                   another_is_initialized>>

\* Lilly.get, post, patch, put, delete, options, head and websocket
route_method(name, path) ==
    /\ request = NoRequest
    /\ app.called = "none"
    /\ app' = [app EXCEPT !.called = name, !.error = raise_NotImplemented]
    /\ UNCHANGED <<router, settings, members, stage, request, action,
                   repository_calls, response>>
    /\ UNCHANGED <<tables, rows, is_initialized, pc, call, session, prim_args,
                   objs, pending, result, error, pre, log, handle, sessions,
                   another_is_initialized>>

\* the caller has the exception
caught ==
    /\ app.called # "none"
    /\ app' = [app EXCEPT !.called = "none", !.error = "none"]
    /\ UNCHANGED <<router, settings, members, stage, request, action,
                   repository_calls, response>>
    /\ UNCHANGED <<tables, rows, is_initialized, pc, call, session, prim_args,
                   objs, pending, result, error, pre, log, handle, sessions,
                   another_is_initialized>>

-----------------------------------------------------------------------------
(* The services are imported, which decorates their route sets; then the   *)
(* application serves requests                                             *)

\* a route another service's route set has on the shared router
OtherRoute ==
    [method |-> "GET", path |-> "/first/{name}", endpoint |-> "say_hello", bound |-> TRUE]

InitRouting ==
    /\ tables = FALSE
    /\ rows = {}
    /\ is_initialized = FALSE
    /\ another_is_initialized = FALSE
    /\ InitCallers
    /\ router = <<OtherRoute>>
    /\ settings = NoSettings
    /\ members = {}
    /\ stage = "undecorated"
    /\ request = NoRequest
    /\ action = NoAction
    /\ repository_calls = <<>>
    /\ response = NoResponse
    /\ app = NoApp

NextRouting ==
    \/ \E s \in SettingsChoices : routeset(s)
    \/ \E body \in RequestBodies : route_create_one(body)
    \/ \E body \in RequestBatches : route_create_many(body)
    \/ \E record_id \in RequestIds : route_read_one(record_id)
    \/ \E skip \in RequestSkips, limit \in RequestLimits,
          q \in {None} \cup {Some(t) : t \in Queries} :
            route_read_many(skip, limit, q)
    \/ \E record_id \in RequestIds, body \in RequestUpdates :
            route_update_one(record_id, body)
    \/ \E record_id \in RequestIds, body \in RequestBodies :
            route_update_partial(record_id, body)
    \/ \E body \in RequestBodies, q \in {None} \cup {Some(t) : t \in Queries} :
            route_update_many(body, q)
    \/ \E record_id \in RequestIds : route_delete_one(record_id)
    \/ \E q \in {None} \cup {Some(t) : t \in Queries} : route_delete_many(q)
    \/ \E answer \in Answers : run(answer)
    \/ respond
    \/ \E path \in MountPaths : mount(path)
    \/ \E name \in RouteMethods, path \in MountPaths : route_method(name, path)
    \/ caught

SpecRouting == InitRouting /\ [][NextRouting]_vars

-----------------------------------------------------------------------------
(* Calls on repositories that leave a hook unimplemented, and calls made   *)
(* while the store cannot be reached                                       *)

\* what can be wrong about one call: nothing, one missing hook, or an outage
FaultChoices ==
    {[missing |-> {}, outage |-> FALSE], [missing |-> {}, outage |-> TRUE]}
        \cup {[missing |-> {h}, outage |-> FALSE] : h \in Hooks}

\* the eight public operations and their arguments
Operations ==
    {[NoCall EXCEPT !.op = "get_one", !.record_id = i] : i \in RecordIds}
        \cup {[NoCall EXCEPT !.op = "get_many", !.criteria = c] :
                  c \in {<<>>, <<Str("id", ">", 1)>>}}
        \cup {[NoCall EXCEPT !.op = "create_one", !.record = r] : r \in CreationDTOs}
        \cup {[NoCall EXCEPT !.op = "create_many", !.records = b] : b \in Batches}
        \cup {[NoCall EXCEPT !.op = "update_one", !.record_id = i, !.record = r] :
                  i \in RecordIds, r \in CreationDTOs}
        \cup {[NoCall EXCEPT !.op = "update_many", !.record = r, !.criteria = c] :
                  r \in CreationDTOs, c \in {<<>>, <<Str("id", ">", 1)>>}}
        \cup {[NoCall EXCEPT !.op = "remove_one", !.record_id = i] : i \in RecordIds}
        \cup {[NoCall EXCEPT !.op = "remove_many", !.criteria = c] :
                  c \in {<<>>, <<Str("id", ">", 1)>>}}

\* the rows an operation would add
Growth(c) ==
    CASE c.op = "create_one" -> 1
      [] c.op = "create_many" -> Len(c.records)
      [] OTHER -> 0

\* one public operation, called on a repository that may leave a hook
\* unimplemented, at a time when the store may be out of reach
call_repository(p, c, fault) ==
    /\ GeneratedId(rows) + Growth(c) - 1 <= MaxId
    /\ Begin(p, [c EXCEPT !.missing = fault.missing, !.outage = fault.outage])

NextFaults ==
    \/ \E c \in Operations, fault \in FaultChoices : call_repository("c1", c, fault)
    \/ \E p \in Callers : connect(p)
    \/ \E p \in Callers : connect_initialize_db(p)
    \/ \E p \in Callers : __enter__(p)
    \/ \E p \in Callers : _get_one(p)
    \/ \E p \in Callers : _get_many(p)
    \/ \E p \in Callers : _create_one(p)
    \/ \E p \in Callers : _create_many(p)
    \/ \E p \in Callers : _update_one(p)
    \/ \E p \in Callers : _update_many(p)
    \/ \E p \in Callers : _remove_one(p)
    \/ \E p \in Callers : _remove_many(p)
    \/ \E p \in Callers : execute(p)
    \/ \E p \in Callers : commit(p)
    \/ \E p \in Callers : _to_output_dto(p)
    \/ \E p \in Callers : __exit__(p)
    \/ \E p \in Callers : return(p)
    \/ initialize_db
    \/ clear_db

SpecFaults == Init /\ [][NextFaults]_vars

-----------------------------------------------------------------------------
(* Repository calls running concurrently on one repository and datasource  *)

ConcurrentOperations ==
    {[NoCall EXCEPT !.op = "get_one", !.record_id = 1],
     [NoCall EXCEPT !.op = "create_one", !.record = [title |-> "Doe"]],
     [NoCall EXCEPT !.op = "remove_one", !.record_id = 1]}

\* a request thread makes a public call while other calls may be running
call_concurrently(p, c) ==
    /\ pc[p] = "idle"
    /\ GeneratedId(rows) + Growth(c) - 1 <= MaxId
    /\ call' = [call EXCEPT ![p] = c]
    /\ pc' = [pc EXCEPT ![p] = "connect"]
    /\ pre' = [pre EXCEPT ![p] = rows]
    /\ UNCHANGED <<tables, rows, is_initialized, session, prim_args, objs,
                   pending, result, error, log, handle, sessions>>
    /\ UNCHANGED web
    /\ UNCHANGED another_is_initialized

NextConcurrent ==
    \/ \E p \in Callers, c \in ConcurrentOperations : call_concurrently(p, c)
    \/ \E p \in Callers : connect(p)
    \/ \E p \in Callers : connect_initialize_db(p)
    \/ \E p \in Callers : __enter__(p)
    \/ \E p \in Callers : _get_one(p)
    \/ \E p \in Callers : _create_one(p)
    \/ \E p \in Callers : _remove_one(p)
    \/ \E p \in Callers : commit(p)
    \/ \E p \in Callers : _to_output_dto(p)
    \/ \E p \in Callers : __exit__(p)
    \/ \E p \in Callers : return(p)

SpecConcurrent == Init /\ [][NextConcurrent]_vars

-----------------------------------------------------------------------------
(* A second SQLAlchemyDataSource instance in the same process, bound to    *)
(* the same store.  `_is_initialized` is a class attribute holding False;  *)
(* `self._is_initialized = ...` writes an attribute of the instance, so    *)
(* each instance reads its own value once it has written one, and the      *)
(* class's False until then.                                               *)

\* connect() on the second instance
another_connect ==
    /\ \A q \in Callers : pc[q] = "idle"
    /\ ~another_is_initialized
    /\ tables' = TRUE
    /\ another_is_initialized' = TRUE
    /\ UNCHANGED <<rows, is_initialized, pc, call, session, prim_args, objs,
                   pending, result, error, pre, log, handle, sessions>>
    /\ UNCHANGED web

\* initialize_db() on the second instance
another_initialize_db ==
    /\ \A q \in Callers : pc[q] = "idle"
    /\ tables' = TRUE
    /\ another_is_initialized' = TRUE
    /\ UNCHANGED <<rows, is_initialized, pc, call, session, prim_args, objs,
                   pending, result, error, pre, log, handle, sessions>>
    /\ UNCHANGED web

\* (mutation) the flag is an attribute of the class: clear_db resets it for
\* every instance
another_clear_db_process_wide ==
    /\ \A q \in Callers : pc[q] = "idle"
    /\ tables' = FALSE
    /\ rows' = {}
    /\ another_is_initialized' = FALSE
    /\ is_initialized' = FALSE
    /\ UNCHANGED <<pc, call, session, prim_args, objs, pending, result, error,
                   pre, log, handle, sessions>>
    /\ UNCHANGED web

\* clear_db() on the second instance
another_clear_db ==
    /\ \A q \in Callers : pc[q] = "idle"
    /\ tables' = FALSE
    /\ rows' = {}
    /\ another_is_initialized' = FALSE
    /\ UNCHANGED <<is_initialized, pc, call, session, prim_args, objs, pending,
                   result, error, pre, log, handle, sessions>>
    /\ UNCHANGED web

NextInstances ==
    \/ \E p \in Callers, record_id \in RecordIds : get_one(p, record_id)
    \/ \E p \in Callers, record \in CreationDTOs : create_one(p, record)
    \/ \E p \in Callers : connect(p)
    \/ \E p \in Callers : connect_initialize_db(p)
    \/ \E p \in Callers : __enter__(p)
    \/ \E p \in Callers : _get_one(p)
    \/ \E p \in Callers : _create_one(p)
    \/ \E p \in Callers : commit(p)
    \/ \E p \in Callers : _to_output_dto(p)
    \/ \E p \in Callers : __exit__(p)
    \/ \E p \in Callers : return(p)
    \/ initialize_db
    \/ clear_db
    \/ another_connect
    \/ another_initialize_db
    \/ another_clear_db

SpecInstances == Init /\ [][NextInstances]_vars

-----------------------------------------------------------------------------
(* A bulk call (update_many, remove_many) running while another caller     *)
(* writes to the same table through its own session                        *)

BulkOperations ==
    {[NoCall EXCEPT !.op = "update_many", !.record = [title |-> "Roe"], !.filters = f] :
        f \in {NoFilters, [title |-> "Doe"]}}
        \cup {[NoCall EXCEPT !.op = "remove_many", !.filters = f] :
                  f \in {NoFilters, [title |-> "Doe"]}}

\* the writes of the other caller: an insert, a modification, a deletion
WriterOperations ==
    {[NoCall EXCEPT !.op = "create_one", !.record = [title |-> "Doe"]],
     [NoCall EXCEPT !.op = "update_one", !.record_id = 1, !.record = [title |-> "Roe"]],
     [NoCall EXCEPT !.op = "remove_one", !.record_id = 1]}

NextWriters ==
    \/ \E c \in BulkOperations : call_concurrently("c1", c)
    \/ \E c \in WriterOperations : call_concurrently("c2", c)
    \/ \E p \in Callers : connect(p)
    \/ \E p \in Callers : connect_initialize_db(p)
    \/ \E p \in Callers : __enter__(p)
    \/ \E p \in Callers : _create_one(p)
    \/ \E p \in Callers : _update_one(p)
    \/ \E p \in Callers : _remove_one(p)
    \/ \E p \in Callers : _update_many(p)
    \/ \E p \in Callers : _remove_many(p)
    \/ \E p \in Callers : execute(p)
    \/ \E p \in Callers : commit(p)
    \/ \E p \in Callers : _to_output_dto(p)
    \/ \E p \in Callers : __exit__(p)
    \/ \E p \in Callers : return(p)

SpecWriters == Init /\ [][NextWriters]_vars

-----------------------------------------------------------------------------
(* update_many with the DTOs a repository may be given: the creation DTO   *)
(* (title), and a DTO of a class that also declares an optional id with    *)
(* the default None, which its caller leaves unset                         *)

PartialDTOs == {[id |-> None, title |-> t, fields_set |-> {"title"}] : t \in Titles}

UpdateCriteria == {<<>>, <<Expr("id", "<", MaxId)>>}

NextUpdates ==
    \/ \E p \in Callers, record \in CreationDTOs : create_one(p, record)
    \/ \E p \in Callers, new_record \in CreationDTOs \cup PartialDTOs,
          criterion \in UpdateCriteria, filters \in FilterChoices :
            update_many(p, new_record, criterion, filters)
    \/ \E p \in Callers : connect(p)
    \/ \E p \in Callers : connect_initialize_db(p)
    \/ \E p \in Callers : __enter__(p)
    \/ \E p \in Callers : _create_one(p)
    \/ \E p \in Callers : _update_many(p)
    \/ \E p \in Callers : execute(p)
    \/ \E p \in Callers : commit(p)
    \/ \E p \in Callers : _to_output_dto(p)
    \/ \E p \in Callers : __exit__(p)
    \/ \E p \in Callers : return(p)

SpecUpdates == Init /\ [][NextUpdates]_vars

-----------------------------------------------------------------------------
(* connect(), initialize_db() and clear_db() called on one datasource by   *)
(* threads running concurrently: each statement of the three methods is a  *)
(* step of its own                                                         *)

DataSourceMethods == {"connect", "initialize_db", "clear_db"}

\* a thread calls `method` on the datasource
call_datasource(p, method) ==
    /\ pc[p] = "idle"
    /\ call' = [call EXCEPT ![p] = [NoCall EXCEPT !.op = method]]
    /\ pc' = [pc EXCEPT ![p] =
            CASE method = "connect" -> "if not self._is_initialized"
              [] method = "initialize_db" -> "create_all"
              [] method = "clear_db" -> "drop_all"]
    /\ UNCHANGED <<tables, rows, is_initialized, session, prim_args, objs,
                   pending, result, error, pre, log, handle, sessions>>
    /\ UNCHANGED web
    /\ UNCHANGED another_is_initialized

\* connect: `if not self._is_initialized:`
connect_if_not_is_initialized(p) ==
    /\ pc[p] = "if not self._is_initialized"
    /\ pc' = [pc EXCEPT ![p] = IF is_initialized THEN "return" ELSE "create_all"]
    /\ UNCHANGED <<tables, rows, is_initialized, call, session, prim_args, objs,
                   pending, result, error, pre, log, handle, sessions>>
    /\ UNCHANGED web
    /\ UNCHANGED another_is_initialized

\* initialize_db: metadata.create_all(bind=self._engine)
create_all(p) ==
    /\ pc[p] = "create_all"
    /\ tables' = TRUE
    /\ pc' = [pc EXCEPT ![p] = "self._is_initialized = True"]
    /\ UNCHANGED <<rows, is_initialized, call, session, prim_args, objs,
                   pending, result, error, pre, log, handle, sessions>>
    /\ UNCHANGED web
    /\ UNCHANGED another_is_initialized

\* initialize_db: self._is_initialized = True
set_is_initialized(p) ==
    /\ pc[p] = "self._is_initialized = True"
    /\ is_initialized' = TRUE
    /\ pc' = [pc EXCEPT ![p] = "return"]
    /\ UNCHANGED <<tables, rows, call, session, prim_args, objs,
                   pending, result, error, pre, log, handle, sessions>>
    /\ UNCHANGED web
    /\ UNCHANGED another_is_initialized

\* clear_db: metadata.drop_all(bind=self._engine)
drop_all(p) ==
    /\ pc[p] = "drop_all"
    /\ tables' = FALSE
    /\ rows' = {}
    /\ pc' = [pc EXCEPT ![p] = "self._is_initialized = False"]
    /\ UNCHANGED <<is_initialized, call, session, prim_args, objs,
                   pending, result, error, pre, log, handle, sessions>>
    /\ UNCHANGED web
    /\ UNCHANGED another_is_initialized

\* clear_db: self._is_initialized = False
reset_is_initialized(p) ==
    /\ pc[p] = "self._is_initialized = False"
    /\ is_initialized' = FALSE
    /\ pc' = [pc EXCEPT ![p] = "return"]
    /\ UNCHANGED <<tables, rows, call, session, prim_args, objs,
                   pending, result, error, pre, log, handle, sessions>>
    /\ UNCHANGED web
    /\ UNCHANGED another_is_initialized

\* the method returns; connect() returns the context manager of a session
\* on the store as it is now
datasource_return(p) ==
    /\ pc[p] = "return"
    /\ pc' = [pc EXCEPT ![p] = "idle"]
    /\ call' = [call EXCEPT ![p] = NoCall]
    /\ log' = [log EXCEPT ![p] =
            IF call[p].op = "connect"
            THEN <<IF tables THEN "connected" ELSE "connected without schema">>
            ELSE <<>>]
    /\ UNCHANGED <<tables, rows, is_initialized, session, prim_args, objs,
                   pending, result, error, pre, handle, sessions>>
    /\ UNCHANGED web
    /\ UNCHANGED another_is_initialized

NextDataSource ==
    \/ \E p \in Callers, method \in DataSourceMethods : call_datasource(p, method)
    \/ \E p \in Callers : connect_if_not_is_initialized(p)
    \/ \E p \in Callers : create_all(p)
    \/ \E p \in Callers : set_is_initialized(p)
    \/ \E p \in Callers : drop_all(p)
    \/ \E p \in Callers : reset_is_initialized(p)
    \/ \E p \in Callers : datasource_return(p)

SpecDataSource == Init /\ [][NextDataSource]_vars

-----------------------------------------------------------------------------
(* Properties                                                              *)

\* C1: every public Repository operation does, in this order, one
\* connect(), one __enter__, one call of its own store primitive with the
\* caller's arguments, one conversion per returned record in the order
\* returned, and then the release; what it returns is the converted DTO
\* (single-record operations) or the list of converted DTOs.
C1_AcquireDelegateConvertRelease ==
    \A p \in Callers :
        LET steps == SelectSeq(log[p], LAMBDA e : e \notin {"execute", "commit"})
            n == Len(objs[p])
            primitive ==
                CASE call[p].op = "get_one" -> "_get_one"
                  [] call[p].op = "get_many" -> "_get_many"
                  [] call[p].op = "create_one" -> "_create_one"
                  [] call[p].op = "create_many" -> "_create_many"
                  [] call[p].op = "update_one" -> "_update_one"
                  [] call[p].op = "update_many" -> "_update_many"
                  [] call[p].op = "remove_one" -> "_remove_one"
                  [] call[p].op = "remove_many" -> "_remove_many"
                  [] OTHER -> "none"
            Sequence(k) ==
                <<"connect", "enter", primitive>> \o [i \in 1..k |-> "convert"]
                    \o <<"exit">>
            IsPrefix(a, b) == Len(a) <= Len(b) /\ a = SubSeq(b, 1, Len(a))
            single == call[p].op \in {"get_one", "create_one", "update_one", "remove_one"}
        IN  /\ error[p] = "none" => IsPrefix(steps, Sequence(n))
            /\ error[p] # "none" =>
                    /\ Len(steps) >= 3
                    /\ \E k \in 0..n : IsPrefix(steps, Sequence(k))
            /\ Len(steps) >= 3 => prim_args[p] = call[p]
            /\ (pc[p] = "done" /\ error[p] = "none") =>
                    /\ steps = Sequence(n)
                    /\ Len(result[p]) = n
                    /\ \A i \in 1..n : result[p][i].id = objs[p][i].id
                    /\ single => n = 1

C1_Witness ==
    \E p \in Callers :
        /\ pc[p] = "done"
        /\ error[p] = "none"
        /\ call[p].op = "get_many"
        /\ Len(result[p]) = 2

\* C2: the session a public Repository operation acquired is closed on every
\* exit path (normal return, an exception of the store primitive, an
\* exception of the DTO conversion): no call that has returned or failed
\* leaves its session open.
C2_ConnectionReleased ==
    \A p \in Callers :
        /\ pc[p] = "done" => session[p] = "closed"
        /\ pc[p] = "idle" => session[p] # "open"
        /\ session[p] = "open" => pc[p] \in {"primitive", "execute", "commit", "convert", "exit"}

C2_Witness ==
    \E p \in Callers :
        /\ pc[p] = "done"
        /\ error[p] = "KeyError"
        /\ "enter" \in {log[p][i] : i \in 1..Len(log[p])}
        /\ session[p] = "closed"

\* C3: get_one(record_id) returns a DTO whose id is record_id when the
\* record exists, and raises NotFound (KeyError) when it does not.
C3_GetOneFoundOrNotFound ==
    \A p \in Callers :
        (pc[p] = "done" /\ call[p].op = "get_one") =>
            IF call[p].record_id \in Ids(pre[p])
            THEN /\ error[p] = "none"
                 /\ Len(result[p]) = 1
                 /\ result[p][1].id = call[p].record_id
            ELSE error[p] = "KeyError"

\* C4: update_many returns one DTO for each record that matched the criteria
\* and the filters just before the update, and no others; in each DTO the
\* fields new_dto sets carry new_dto's values and every other field (the id
\* included) carries the record's value from before the update; with no
\* match the result is the empty list.
C4_UpdateManyReturnsMatches ==
    \A p \in Callers :
        (pc[p] = "done" /\ call[p].op = "update_many") =>
            LET new_dto == call[p].record
                matched == {r \in pre[p] :
                               /\ \A i \in 1..Len(call[p].criteria) :
                                      Holds(call[p].criteria[i], r)
                               /\ \A f \in DOMAIN call[p].filters :
                                      r[f] = call[p].filters[f]}
                returned == {result[p][i] : i \in 1..Len(result[p])}
                Merged(r) == [f \in {"id", "title"} |->
                                 IF f \in DOMAIN new_dto THEN new_dto[f] ELSE r[f]]
            IN  /\ error[p] = "none"
                /\ Len(result[p]) = Cardinality(matched)
                /\ returned = {Merged(r) : r \in matched}
                /\ {d.id : d \in returned} = Ids(matched)
                /\ matched = {} => result[p] = <<>>

C4_Witness ==
    \E p \in Callers :
        /\ pc[p] = "done"
        /\ call[p].op = "update_many"
        /\ Len(result[p]) = 2
        /\ Cardinality(pre[p]) = 3
        /\ \E r \in pre[p] : r.id = result[p][1].id /\ r.title # result[p][1].title

\* C5: after update_many the store holds the same ids as before; every
\* record that matched has new_dto's values in the fields new_dto sets, and
\* every record that did not match is unchanged in every field.  On the
\* ten-record Doe/Roe fixture, title "Rene" under id < 10, id > 2 and
\* title = "Roe" changes exactly the records 4, 7 and 8.
C5_UpdateManyFrame ==
    \A p \in Callers :
        (pc[p] = "done" /\ call[p].op = "update_many") =>
            LET new_dto == call[p].record
                Matched(r) ==
                    /\ \A i \in 1..Len(call[p].criteria) : Holds(call[p].criteria[i], r)
                    /\ \A f \in DOMAIN call[p].filters : r[f] = call[p].filters[f]
                Merged(r) == [f \in {"id", "title"} |->
                                 IF f \in DOMAIN new_dto THEN new_dto[f] ELSE r[f]]
                changed == {r.id : r \in pre[p] \ rows}
            IN  /\ Ids(rows) = Ids(pre[p])
                /\ Cardinality(rows) = Cardinality(pre[p])
                /\ \A r \in pre[p] : IF Matched(r) THEN Merged(r) \in rows ELSE r \in rows
                /\ ( /\ pre[p] = InsertAll({}, MOCK_NAME_RECORDS)
                     /\ new_dto = [title |-> "Rene"]
                     /\ call[p].criteria = <<Expr("id", "<", 10), Str("id", ">", 2)>>
                     /\ call[p].filters = [title |-> "Roe"] )
                   => /\ changed = {4, 7, 8}
                      /\ \A r \in rows : r.id \in changed => r.title = "Rene"

C5_Witness ==
    \E p \in Callers :
        /\ pc[p] = "done"
        /\ call[p].op = "update_many"
        /\ pre[p] = InsertAll({}, MOCK_NAME_RECORDS)
        /\ call[p].criteria = <<Expr("id", "<", 10), Str("id", ">", 2)>>
        /\ call[p].filters = [title |-> "Roe"]
        /\ {r.id : r \in rows \ pre[p]} = {4, 7, 8}

\* C6: remove_many returns exactly the DTOs of the records that matched the
\* criteria and the filters, as they were just before the deletion;
\* afterwards none of them is in the store and every record that did not
\* match is still there, unchanged.
C6_RemoveManyReturnsAndDeletesMatches ==
    \A p \in Callers :
        (pc[p] = "done" /\ call[p].op = "remove_many") =>
            LET matched == {r \in pre[p] :
                               /\ \A i \in 1..Len(call[p].criteria) :
                                      Holds(call[p].criteria[i], r)
                               /\ \A f \in DOMAIN call[p].filters :
                                      r[f] = call[p].filters[f]}
            IN  /\ error[p] = "none"
                /\ Len(result[p]) = Cardinality(matched)
                /\ {result[p][i] : i \in 1..Len(result[p])} = matched
                /\ rows \cap matched = {}
                /\ Ids(rows) \cap Ids(matched) = {}
                /\ rows = pre[p] \ matched

C6_Witness ==
    \E p \in Callers :
        /\ pc[p] = "done"
        /\ call[p].op = "remove_many"
        /\ Len(result[p]) = 2
        /\ Cardinality(rows) = 1

\* C7: get_many returns, in store order, the records that satisfy every
\* criterion and every filter, with the first `skip` matches dropped and at
\* most `limit` of the rest kept (all of them when limit is None): never a
\* non-matching record, never more than `limit`.  On the ten-record fixture,
\* get_many(id < 10, "id > 2", skip=1, limit=2, title="Roe") returns the
\* records 7 and 8.
C7_GetManySkipLimit ==
    \A p \in Callers :
        (pc[p] = "done" /\ call[p].op = "get_many") =>
            LET matched == {r \in pre[p] :
                               /\ \A i \in 1..Len(call[p].criteria) :
                                      Holds(call[p].criteria[i], r)
                               /\ \A f \in DOMAIN call[p].filters :
                                      r[f] = call[p].filters[f]}
                m == Cardinality(matched)
                rest == IF m > call[p].skip THEN m - call[p].skip ELSE 0
                n == Len(result[p])
                Before(r) == Cardinality({o \in matched : o.id < r.id})
            IN  /\ error[p] = "none"
                /\ rows = pre[p]
                /\ \A i \in 1..n : result[p][i] \in matched
                /\ \A i \in 1..n : Before(result[p][i]) = call[p].skip + i - 1
                /\ call[p].limit = None => n = rest
                /\ call[p].limit # None =>
                        /\ n <= call[p].limit[1]
                        /\ n = IF rest < call[p].limit[1] THEN rest ELSE call[p].limit[1]
                /\ ( /\ pre[p] = InsertAll({}, MOCK_NAME_RECORDS)
                     /\ call[p].criteria = <<Expr("id", "<", 10), Str("id", ">", 2)>>
                     /\ call[p].skip = 1
                     /\ call[p].limit = Some(2)
                     /\ call[p].filters = [title |-> "Roe"] )
                   => result[p] = <<[id |-> 7, title |-> "Roe"], [id |-> 8, title |-> "Roe"]>>

C7_Witness ==
    \E p \in Callers :
        /\ pc[p] = "done"
        /\ call[p].op = "get_many"
        /\ pre[p] = InsertAll({}, MOCK_NAME_RECORDS)
        /\ call[p].criteria = <<Expr("id", "<", 10), Str("id", ">", 2)>>
        /\ call[p].skip = 1
        /\ call[p].limit = Some(2)
        /\ call[p].filters = [title |-> "Roe"]
        /\ Len(result[p]) = 2

C9_RemoveOne ==
    \A p \in Callers :
        (pc[p] = "done" /\ call[p].op = "remove_one") =>
            LET record_id == call[p].record_id
            IN  IF record_id \in Ids(pre[p])
                THEN LET old == CHOOSE r \in pre[p] : r.id = record_id
                     IN  /\ error[p] = "none"
                         /\ result[p] = <<old>>
                         /\ record_id \notin Ids(rows)
                         /\ rows = pre[p] \ {old}
                ELSE /\ error[p] = "KeyError"
                     /\ result[p] = <<>>
                     /\ rows = pre[p]

C9_Witness ==
    \E p \in Callers :
        /\ pc[p] = "done"
        /\ call[p].op = "remove_one"
        /\ error[p] = "none"
        /\ Len(result[p]) = 1
        /\ Cardinality(rows) = 2

\* C10: create_one persists exactly one new record and returns a DTO with
\* the store-generated id and the input's field values; get_one of that id,
\* issued afterwards, returns a DTO equal to it field for field.
C10_CreateOneRoundTrip ==
    \A p \in Callers :
        (pc[p] = "done" /\ call[p].op = "create_one") =>
            /\ error[p] = "none"
            /\ Len(result[p]) = 1
            /\ LET dto == result[p][1]
                   fetched == Get(rows, dto.id)
               IN  /\ DOMAIN dto = {"id", "title"}
                   /\ dto.id \notin Ids(pre[p])
                   /\ \A f \in DOMAIN call[p].record : dto[f] = call[p].record[f]
                   /\ Cardinality(rows) = Cardinality(pre[p]) + 1
                   /\ Cardinality(Ids(rows)) = Cardinality(rows)
                   /\ rows \ pre[p] = {dto}
                   /\ pre[p] \subseteq rows
                   /\ fetched # NoneRecord
                   /\ from_orm(Loaded(fetched)) = dto

C10_Witness ==
    \E p \in Callers :
        /\ pc[p] = "done"
        /\ call[p].op = "create_one"
        /\ error[p] = "none"
        /\ Ids(pre[p]) = {2}
        /\ result[p][1].id = 3

\* C11: create_many returns the empty list whenever it succeeds, and it
\* succeeds for every batch that is not empty; afterwards the store holds
\* every record it held before, unchanged, and in addition exactly one new
\* record per input DTO, each with a fresh id and the values of its DTO.
C11_CreateManyReturnsEmptyAndPersists ==
    \A p \in Callers :
        (pc[p] = "done" /\ call[p].op = "create_many") =>
            LET records == call[p].records
                added == rows \ pre[p]
                Inputs(t) == Cardinality({i \in 1..Len(records) : records[i].title = t})
                Added(t) == Cardinality({r \in added : r.title = t})
            IN  /\ Len(records) > 0 => error[p] = "none"
                /\ error[p] = "none" =>
                        /\ result[p] = <<>>
                        /\ pre[p] \subseteq rows
                        /\ Cardinality(added) = Len(records)
                        /\ Ids(added) \cap Ids(pre[p]) = {}
                        /\ Cardinality(Ids(rows)) = Cardinality(rows)
                        /\ \A i \in 1..Len(records) :
                                Added(records[i].title) = Inputs(records[i].title)
                        /\ \A r \in added :
                                \E i \in 1..Len(records) : r.title = records[i].title
                /\ error[p] # "none" => rows = pre[p]

C11_Witness ==
    \E p \in Callers :
        /\ pc[p] = "done"
        /\ call[p].op = "create_many"
        /\ error[p] = "none"
        /\ result[p] = <<>>
        /\ Len(call[p].records) = 2
        /\ call[p].records[1].title # call[p].records[2].title
        /\ Cardinality(pre[p]) = 1
        /\ Cardinality(rows) = 3

C17_FreshSessionPerCall ==
    /\ \A p, q \in Callers :
            (p # q /\ handle[p] # NoSession /\ handle[q] # NoSession) =>
                handle[p] # handle[q]
    /\ \A p \in Callers :
            pc[p] \in {"primitive", "execute", "commit", "convert", "exit"} =>
                /\ handle[p] # NoSession
                /\ sessions[handle[p]] = "open"
    /\ \A p \in Callers :
            pc[p] = "done" /\ handle[p] # NoSession => sessions[handle[p]] = "closed"

C17_Witness ==
    /\ pc["c1"] = "done"
    /\ sessions[handle["c1"]] = "closed"
    /\ pc["c2"] = "commit"
    /\ sessions[handle["c2"]] = "open"

\* C18: a public call on a repository that leaves a hook unimplemented ends
\* in NotImplementedError (which is not the KeyError of a missing record)
\* and leaves the store as it was; when the missing hook is the datasource,
\* connect() is not called and no session is created.
C18_MissingHookFails ==
    \A p \in Callers :
        (pc[p] = "done" /\ call[p].missing # {}) =>
            /\ error[p] = "NotImplementedError"
            /\ error[p] # "KeyError"
            /\ rows = pre[p]
            /\ ("_datasource" \in call[p].missing =>
                    (handle[p] = NoSession /\ session[p] = "none" /\ log[p] = <<>>))

\* C18 (amended): a missing hook makes the call fail with
\* NotImplementedError when the call reaches that hook.  A missing
\* datasource fails every call before connect(), with no session; a missing
\* model class or store primitive fails every call inside the connection
\* scope, which is then released; both leave the store unchanged.  A missing
\* DTO class fails the call exactly when the store primitive has returned at
\* least one record to convert, after whatever the primitive committed; a
\* call whose primitive returns no record succeeds with the empty list.
C18_MissingHookFailsWhenReached ==
    \A p \in Callers :
        (pc[p] = "done" /\ call[p].missing # {}) =>
            /\ ("_datasource" \in call[p].missing =>
                    /\ error[p] = "NotImplementedError"
                    /\ rows = pre[p]
                    /\ handle[p] = NoSession
                    /\ log[p] = <<>>)
            /\ (call[p].missing \in {{"_model_cls"}, {"_primitive"}} =>
                    /\ error[p] = "NotImplementedError"
                    /\ rows = pre[p]
                    /\ session[p] = "closed"
                    /\ result[p] = <<>>)
            /\ (call[p].missing = {"_dto_cls"} =>
                    /\ error[p] \in {"none", "NotImplementedError", "KeyError",
                                     "IntegrityError"}
                    /\ error[p] = "NotImplementedError" <=> Len(objs[p]) > 0
                    /\ error[p] = "KeyError" <=>
                            /\ call[p].op \in {"update_one", "remove_one"}
                            /\ call[p].record_id \notin Ids(pre[p])
                    /\ error[p] = "IntegrityError" <=>
                            (call[p].op = "create_many" /\ Len(call[p].records) = 0)
                    /\ result[p] = <<>>
                    /\ session[p] = "closed"
                    /\ (call[p].op = "create_one" => Cardinality(rows) = Cardinality(pre[p]) + 1)
                    /\ (call[p].op = "remove_one" /\ error[p] # "KeyError" =>
                            call[p].record_id \notin Ids(rows)))

C18_Witness ==
    \E p \in Callers :
        /\ pc[p] = "done"
        /\ call[p].missing = {"_dto_cls"}
        /\ call[p].op = "update_many"
        /\ error[p] = "NotImplementedError"
        /\ rows # pre[p]

\* C19: an error raised by connect() or by a store primitive is the error
\* the caller gets: once raised it is neither replaced nor dropped, nothing
\* but the release of the connection follows it, and the store primitive is
\* entered at most once per public call.  An unreachable store always shows
\* as the store's own OperationalError, a missing record as KeyError.
C19_ErrorsPropagate ==
    /\ [](\A p \in Callers :
            LET primitives == {"_get_one", "_get_many", "_create_one", "_create_many",
                               "_update_one", "_update_many", "_remove_one",
                               "_remove_many"}
            IN  /\ error[p] # "none" => pc[p] \in {"exit", "done"}
                /\ Cardinality({i \in 1..Len(log[p]) : log[p][i] \in primitives}) <= 1
                /\ (pc[p] = "done" /\ call[p].outage /\ call[p].missing = {}) =>
                        error[p] = "OperationalError"
                /\ ( /\ pc[p] = "done"
                     /\ ~call[p].outage
                     /\ call[p].missing = {}
                     /\ call[p].op \in {"update_one", "remove_one"}
                     /\ call[p].record_id \notin Ids(pre[p]) ) =>
                        error[p] = "KeyError")
    /\ [][\A p \in Callers :
            error[p] # "none" =>
                /\ error'[p] = error[p] \/ pc'[p] = "idle"
                /\ pc'[p] \in {"exit", "done", "idle"}
                /\ rows' = rows]_vars

C19_Witness ==
    \E p \in Callers :
        /\ pc[p] = "done"
        /\ call[p].outage
        /\ error[p] = "OperationalError"
        /\ log[p] = <<"connect">>
        /\ handle[p] = NoSession

\* C12: after @routeset the shared router holds no route for the verb and
\* path of any endpoint whose action is unset, and holds the route of every
\* endpoint whose action is set, bound to the class; the routes that were
\* on the router before are still there.
C12_UnsetActionsHaveNoRoute ==
    stage = "registered" =>
        /\ \A i \in 1..Len(Endpoints) :
                LET e == Endpoints[i]
                    held == {j \in 1..Len(router) :
                                router[j].method = e.method /\ router[j].path = e.path}
                IN  IF e.action \in settings.actions
                    THEN /\ Cardinality(held) = 1
                         /\ \A j \in held :
                                router[j].endpoint = e.endpoint /\ router[j].bound
                    ELSE held = {}
        /\ \E j \in 1..Len(router) : router[j] = OtherRoute

\* C13: run() of each CRUD Action makes exactly one call on its repository,
\* of the method that belongs to its class, with the arguments the Action
\* was constructed with, and what it returns is what that call returned.
C13_RunCallsOneRepositoryMethod ==
    request.at = "done" =>
        /\ Len(repository_calls) = 1
        /\ response = Some(repository_calls[1].answer)
        /\ LET made == repository_calls[1].call
                a == action
            IN  CASE a.cls = "CreateOneAction" ->
                        made.method = "create_one" /\ made.args = <<a.record>>
                  [] a.cls = "CreateManyAction" ->
                        made.method = "create_many" /\ made.args = <<a.records>>
                  [] a.cls = "ReadOneAction" ->
                        made.method = "get_one" /\ made.args = <<a.record_id>>
                  [] a.cls = "ReadManyAction" ->
                        /\ made.method = "get_many"
                        /\ made.args = a.criterion
                        /\ made.kwargs.skip = a.skip
                        /\ made.kwargs.limit = a.limit
                        /\ made.kwargs.filters = a.filters
                  [] a.cls = "UpdateOneAction" ->
                        made.method = "update_one" /\ made.args = <<a.record_id, a.record>>
                  [] a.cls = "UpdateManyAction" ->
                        /\ made.method = "update_many"
                        /\ Head(made.args) = a.record
                        /\ Tail(made.args) = a.criterion
                  [] a.cls = "DeleteOneAction" ->
                        made.method = "remove_one" /\ made.args = <<a.record_id>>
                  [] a.cls = "DeleteManyAction" ->
                        made.method = "remove_many" /\ made.args = a.criterion
                  [] OTHER -> FALSE

C13_Witness ==
    /\ request.at = "done"
    /\ action.cls = "ReadManyAction"
    /\ action.skip = MaxSkip
    /\ action.limit = Some(MaxLimit)
    /\ Len(action.criterion) = 1
    /\ response = Some(<<[id |-> 1, title |-> "Doe"]>>)

\* C14: with every action set, each endpoint constructs, through _do, the
\* Action its settings name for it, with the endpoint's own arguments: the
\* body, the list of bodies, the id, the id and the body, or the compiled q
\* (for GET P/ one criterion when q is given and none when it is not, with
\* skip and limit); that Action is run once and its result is the response.
C14_EndpointRunsItsAction ==
    (request.at \in {"run", "done"} /\ settings.actions = ActionKeys) =>
        LET r == request
            a == action
            fields == settings.string_searchable_fields
            compiled == extract_sql_query_string(fields, IF r.q = None THEN <<>> ELSE r.q[1])
        IN  /\ CASE r.endpoint = "create_one" ->
                        a = [NoAction EXCEPT !.cls = "CreateOneAction", !.record = r.body]
                  [] r.endpoint = "create_many" ->
                        a = [NoAction EXCEPT !.cls = "CreateManyAction", !.records = r.body]
                  [] r.endpoint = "read_one" ->
                        a = [NoAction EXCEPT !.cls = "ReadOneAction",
                                             !.record_id = r.record_id]
                  [] r.endpoint = "read_many" ->
                        /\ a.cls = "ReadManyAction"
                        /\ a.skip = r.skip
                        /\ a.limit = r.limit
                        /\ a.filters = NoFilters
                        /\ a.criterion = IF r.q = None THEN <<>> ELSE <<compiled>>
                  [] r.endpoint \in {"update_one", "update_partial"} ->
                        a = [NoAction EXCEPT !.cls = "UpdateOneAction",
                                             !.record_id = r.record_id, !.record = r.body]
                  [] r.endpoint = "update_many" ->
                        a = [NoAction EXCEPT !.cls = "UpdateManyAction",
                                             !.record = r.body, !.criterion = <<compiled>>]
                  [] r.endpoint = "delete_one" ->
                        a = [NoAction EXCEPT !.cls = "DeleteOneAction",
                                             !.record_id = r.record_id]
                  [] r.endpoint = "delete_many" ->
                        a = [NoAction EXCEPT !.cls = "DeleteManyAction",
                                             !.criterion = <<compiled>>]
                  [] OTHER -> FALSE
            /\ r.at = "run" => repository_calls = <<>>
            /\ r.at = "done" =>
                    /\ Len(repository_calls) = 1
                    /\ response = Some(repository_calls[1].answer)

C14_Witness ==
    /\ request.at = "done"
    /\ settings.actions = ActionKeys
    /\ request.endpoint = "read_many"
    /\ request.q = None
    /\ action.criterion = <<>>
    /\ request.skip = MaxSkip

\* C15: for a non-empty list of searchable fields f1..fn and a query text
\* q, the compiled predicate is f1 LIKE '%q%' OR f2 LIKE '%q%' OR ... in
\* field order, OR standing as a token of its own between two predicates,
\* with no OR before the first or after the last.
C15_CompiledQuery ==
    ( /\ request.at \in {"run", "done"}
      /\ request.endpoint \in {"read_many", "update_many", "delete_many"}
      /\ request.q # None ) =>
        LET fields == settings.string_searchable_fields
            q == request.q[1]
            predicate(i) == fields[i] \o <<" ", "L", "I", "K", "E", " ", "'", "%">>
                                \o q \o <<"%", "'">>
            joined[n \in 0..Len(fields)] ==
                IF n = 0 THEN <<>>
                ELSE IF n = 1 THEN predicate(1)
                ELSE joined[n - 1] \o <<" ", "O", "R", " ">> \o predicate(n)
        IN  /\ Len(fields) > 0
            /\ action.criterion[Len(action.criterion)] = joined[Len(fields)]

\* C20: mount(path, app) on a Lilly application, and each of get, post,
\* patch, put, delete, options, head and websocket, fails with
\* NotImplementedError and leaves the application with nothing mounted and
\* no route added.
C20_MountNotImplemented ==
    app.called # "none" =>
        /\ app.error = "NotImplementedError"
        /\ app.mounted = {}
        /\ app.routes = {}

\* C21: in update_many and remove_many the select of the affected records
\* has run before the bulk statement is executed, and the commit comes after
\* both: while the statement is still to be executed, and until the commit,
\* the store holds the rows it held when the call was made, and the records
\* in hand are the ones that select found; the list returned is that list
\* (with the new values on every record for update_many), whatever a select
\* with the same predicate would find after the mutation.
C21_AffectedSelectedBeforeStatement ==
    \A p \in Callers :
        call[p].op \in {"update_many", "remove_many"} =>
            LET steps == log[p]
                primitive == IF call[p].op = "update_many"
                             THEN "_update_many" ELSE "_remove_many"
                At(e) == {i \in 1..Len(steps) : steps[i] = e}
                Before(a, b) == \A j \in At(b) : \E i \in At(a) : i < j
                coerced_criteria == coerce_string_criteria(call[p].criteria)
                selected == InIdOrder(Where(pre[p], coerced_criteria, call[p].filters))
                returned == [i \in 1..Len(selected) |->
                                IF call[p].op = "update_many"
                                THEN SetAttrs(selected[i], call[p].record)
                                ELSE selected[i]]
            IN  /\ Before(primitive, "execute")
                /\ Before("execute", "commit")
                /\ Before("commit", "convert")
                /\ \A e \in {primitive, "execute", "commit"} :
                        Cardinality(At(e)) <= 1
                /\ pc[p] \in {"execute", "commit"} =>
                        /\ rows = pre[p]
                        /\ Len(objs[p]) = Len(selected)
                        /\ \A i \in 1..Len(selected) : from_orm(objs[p][i]) = returned[i]
                /\ (pc[p] = "done" /\ error[p] = "none") => result[p] = returned

C21_Witness ==
    \E p \in Callers :
        /\ pc[p] = "done"
        /\ error[p] = "none"
        /\ call[p].op = "update_many"
        /\ call[p].filters = [title |-> "Doe"]
        /\ call[p].record = [title |-> "Roe"]
        /\ Len(result[p]) = 2
        /\ Where(rows, coerce_string_criteria(call[p].criteria), call[p].filters) = {}

\* C22: when several callers make their first connect() concurrently, the
\* schema initialisation runs at most once: initialize_db is never run by a
\* caller of connect() on a datasource that another caller has initialised
\* since this caller read the flag.
C22_InitialisedAtMostOnce ==
    [][\A p \in Callers :
          (pc[p] = "initialize" /\ pc'[p] = "enter") => ~is_initialized]_vars

\* C23: the initialised flag is process-wide: every datasource instance
\* of the process observes the same value, so that an initialisation by one
\* is seen by all and clear_db() on one resets it for all.
C23_FlagIsProcessWide == another_is_initialized = is_initialized

\* C23 (amended): the initialised flag is state of the instance: it is false
\* on every instance at first, and a step that changes the flag of one
\* instance (its connect(), initialize_db() or clear_db()) leaves the flag of
\* the other instance as it was.
C23_FlagIsPerInstance ==
    /\ (is_initialized = FALSE /\ another_is_initialized = FALSE)
    /\ [][ /\ is_initialized' # is_initialized =>
                  another_is_initialized' = another_is_initialized
           /\ another_is_initialized' # another_is_initialized =>
                  is_initialized' = is_initialized ]_vars

\* the first instance initialised on a connect(); the second has since run
\* clear_db(), which dropped the tables and left the first one's flag set
C23_Witness ==
    /\ is_initialized
    /\ ~another_is_initialized
    /\ ~tables

\* C24: whatever another caller writes while an update_many or remove_many
\* call runs, when the call's bulk statement is committed the records the
\* call has in hand to return are exactly the records that statement
\* changed or removed.
C24_ReturnedAreTheChanged ==
    [][\A p \in Callers :
          ( /\ pc[p] = "commit"
            /\ pending[p].kind \in {"bulk_update", "bulk_delete"}
            /\ pc'[p] \in {"convert", "exit"}
            /\ error'[p] = "none" ) =>
              pending[p].ids = {objs[p][i].id : i \in 1..Len(objs[p])}]_vars

\* C25: the criteria get_many, update_many and remove_many hand to the query
\* are the caller's criteria, as many and in the same order, each string
\* wrapped in text() with its text as given and every other criterion as it
\* is; the records the query finds are the rows that satisfy every one of
\* the criteria and every field=value filter.
C25_CriteriaCoercedAndCombined ==
    \A p \in Callers :
        call[p].op \in {"get_many", "update_many", "remove_many"} =>
            LET criteria == call[p].criteria
                coerced == coerce_string_criteria(criteria)
                all_hold(r) ==
                    /\ \A i \in 1..Len(criteria) :
                          Holds([field |-> criteria[i].field, op |-> criteria[i].op,
                                 val |-> criteria[i].val], r)
                    /\ \A f \in DOMAIN call[p].filters : r[f] = call[p].filters[f]
                found == {objs[p][i].id : i \in 1..Len(objs[p])}
            IN  /\ Len(coerced) = Len(criteria)
                /\ \A i \in 1..Len(criteria) :
                      /\ coerced[i].field = criteria[i].field
                      /\ coerced[i].op = criteria[i].op
                      /\ coerced[i].val = criteria[i].val
                      /\ coerced[i].kind =
                            IF criteria[i].kind = "str" THEN "text" ELSE criteria[i].kind
                /\ ( /\ pc[p] \in {"execute", "convert", "exit"}
                     /\ error[p] = "none"
                     /\ call[p].skip = 0
                     /\ call[p].limit = None
                     /\ Len(result[p]) = 0 ) =>
                        found = {r.id : r \in {x \in pre[p] : all_hold(x)}}

C25_Witness ==
    \E p \in Callers :
        /\ pc[p] = "convert"
        /\ error[p] = "none"
        /\ call[p].op = "get_many"
        /\ call[p].criteria = <<Expr("id", "<", MaxId), Str("id", ">", 1)>>
        /\ call[p].filters = [title |-> "Doe"]
        /\ call[p].skip = 0
        /\ call[p].limit = None
        /\ Len(result[p]) = 0
        /\ Len(objs[p]) = 1
        /\ Cardinality(pre[p]) = MaxId

\* C26: update_many(new_dto, ...) overwrites, on every matching record, only
\* the fields the caller set in new_dto; a field of the record that the
\* caller did not set keeps its value from before the update, in the store
\* and in the returned DTO.
C26_OnlySetFieldsOverwritten ==
    \A p \in Callers :
        (pc[p] = "done" /\ call[p].op = "update_many") =>
            LET new_dto == call[p].record
                set == IF "fields_set" \in DOMAIN new_dto
                       THEN new_dto.fields_set ELSE DOMAIN new_dto
                Matched(r) ==
                    /\ \A i \in 1..Len(call[p].criteria) : Holds(call[p].criteria[i], r)
                    /\ \A f \in DOMAIN call[p].filters : r[f] = call[p].filters[f]
                Overwritten(r) == [f \in {"id", "title"} |->
                                      IF f \in set THEN new_dto[f] ELSE r[f]]
                matched == InIdOrder({r \in pre[p] : Matched(r)})
            IN  /\ rows = {IF Matched(r) THEN Overwritten(r) ELSE r : r \in pre[p]}
                /\ result[p] = [i \in 1..Len(matched) |-> Overwritten(matched[i])]

\* C26 (amended): update_many(new_dto, ...) overwrites, on every matching
\* record, every field the class of new_dto declares, with the caller's
\* value or, for a field the caller did not set, the default of the class;
\* the fields of the record that the class does not declare keep their value
\* from before the update, in the store and in the returned DTO.  When the
\* default cannot be stored (None for the primary key) and a record
\* matches, the call fails with IntegrityError and the store is unchanged.
C26_DeclaredFieldsOverwritten ==
    \A p \in Callers :
        (pc[p] = "done" /\ call[p].op = "update_many") =>
            LET new_dto == call[p].record
                declared == DOMAIN new_dto \ {"fields_set"}
                Matched(r) ==
                    /\ \A i \in 1..Len(call[p].criteria) : Holds(call[p].criteria[i], r)
                    /\ \A f \in DOMAIN call[p].filters : r[f] = call[p].filters[f]
                Overwritten(r) == [f \in {"id", "title"} |->
                                      IF f \in declared THEN new_dto[f] ELSE r[f]]
                matched == InIdOrder({r \in pre[p] : Matched(r)})
                unstorable == "id" \in declared /\ new_dto.id = None /\ Len(matched) > 0
            IN  IF unstorable
                THEN /\ error[p] = "IntegrityError"
                     /\ rows = pre[p]
                     /\ result[p] = <<>>
                ELSE /\ error[p] = "none"
                     /\ rows = {IF Matched(r) THEN Overwritten(r) ELSE r : r \in pre[p]}
                     /\ result[p] = [i \in 1..Len(matched) |-> Overwritten(matched[i])]

C26_Witness ==
    \E p \in Callers :
        /\ pc[p] = "done"
        /\ error[p] = "none"
        /\ call[p].op = "update_many"
        /\ call[p].record = [title |-> "Roe"]
        /\ call[p].filters = [title |-> "Doe"]
        /\ call[p].criteria = <<>>
        /\ Len(result[p]) = 2
        /\ \E r \in pre[p] : r.title = "Roe"
        /\ \A r \in rows : r.title = "Roe"
        /\ Ids(rows) = Ids(pre[p])

\* C27: in every public Repository operation a record is converted to its
\* DTO only while the session acquired for the operation is open: the
\* conversions come after __enter__ and before __exit__, and once the
\* session is closed the call converts nothing more.
C27_ConvertedWhileConnectionOpen ==
    \A p \in Callers :
        LET steps == log[p]
            At(e) == {i \in 1..Len(steps) : steps[i] = e}
        IN  /\ pc[p] = "convert" =>
                  /\ session[p] = "open"
                  /\ handle[p] # NoSession
                  /\ sessions[handle[p]] = "open"
            /\ (pc[p] = "exit" /\ Len(result[p]) > 0) => session[p] = "open"
            /\ session[p] = "closed" => pc[p] = "done"
            /\ \A c \in At("convert") :
                  /\ \E e \in At("enter") : e < c
                  /\ \A x \in At("exit") : c < x

C27_Witness ==
    \E p \in Callers :
        /\ pc[p] = "done"
        /\ error[p] = "none"
        /\ call[p].op = "remove_many"
        /\ Len(result[p]) = 2
        /\ session[p] = "closed"
        /\ log[p][Len(log[p])] = "exit"
        /\ log[p][Len(log[p]) - 1] = "convert"

\* C28: update_one never changes a record's identity: after a successful
\* update_one(record_id, new_dto), whatever id new_dto carries, the returned
\* DTO's id is record_id, the store holds a record under record_id, and the
\* store holds the same ids as before the call.
C28_UpdateOneKeepsIdentity ==
    \A p \in Callers :
        (pc[p] = "done" /\ call[p].op = "update_one" /\ error[p] = "none") =>
            /\ Len(result[p]) = 1
            /\ result[p][1].id = call[p].record_id
            /\ call[p].record_id \in Ids(rows)
            /\ Ids(rows) = Ids(pre[p])

\* C29: in every state one datasource can reach under interleaved connect(),
\* initialize_db() and clear_db() calls, the initialised flag being true
\* implies that the tables exist; so every connect() returns a connection
\* to a store whose tables exist when it returns.
C29_InitialisedImpliesSchema ==
    /\ is_initialized => tables
    /\ \A p \in Callers :
          "connected without schema" \notin {log[p][i] : i \in 1..Len(log[p])}

\* C30: a PUT M/ or DELETE M/ request without q is handled with the empty
\* text as q: the predicate handed to the update_many / delete_many Action
\* is f LIKE '%%' for each searchable field f, the fields' predicates joined
\* by OR as a token of its own (a predicate every non-null value satisfies),
\* and the empty text when there is no searchable field.
C30_OmittedQueryMatchesAll ==
    ( /\ request.at \in {"run", "done"}
      /\ request.endpoint \in {"update_many", "delete_many"}
      /\ request.q = None ) =>
        LET fields == settings.string_searchable_fields
            like_all(i) == fields[i] \o <<" ", "L", "I", "K", "E", " ", "'", "%", "%", "'">>
            disjunction[n \in 0..Len(fields)] ==
                IF n = 0 THEN <<>>
                ELSE IF n = 1 THEN like_all(1)
                ELSE disjunction[n - 1] \o <<" ", "O", "R", " ">> \o like_all(n)
        IN  /\ Len(action.criterion) = 1
            /\ action.criterion[1] = disjunction[Len(fields)]

====
